---------------------------- MODULE Spec2Model ----------------------------
(***************************************************************************)
(* Verification model of the symmetric layer of cryptox-sdk:               *)
(*   SymmetricKey (src/src/symmetric/aes.ts, second half),                 *)
(*   AES and ChaCha20 ciphers (aes.ts, chacha20.ts),                       *)
(*   BlockCipher (src/src/symmetric/core.ts, second half).                 *)
(* Byte arrays are sequences of 0..255 (1-based here, 0-based in the       *)
(* source); text is a sequence of UTF-16 code units.                       *)
(***************************************************************************)
EXTENDS Integers, Sequences, FiniteSets, TLC

VARIABLES
  env,      \* host environment: "node" or "browser" (isBrowser())
  keys,     \* heap of SymmetricKey instances, a reference is an index
  kres,     \* outcome of the last SymmetricKey operation
  cipher,   \* the AES / ChaCha20 instance under test, or NoCipher
  cres,     \* outcome of the last cipher operation
  watch,    \* first generateInitializationVector result a caller kept
  block,    \* the BlockCipher, the BlockResult in the caller's hands, last outcome
  calls,    \* encrypt / decrypt calls of concurrent callers on the one instance
  vector,   \* a MultidimensionalVector and the outcome of the last call on it
  found,    \* the last call of a byte or text function: arguments and result
  deferred, \* a Deferred, its promise and the outcome of the last call on it
  pg        \* the connection cache of PostgresEmbeddingExtension and its operations

vars == <<env, keys, kres, cipher, cres, watch, block, calls, vector, found, deferred, pg>>

----------------------------------------------------------------------------
(* Bounds *)

MaxKeys == 1          \* SymmetricKey instances alive at once
MaxStop == 20         \* largest stopLength handed to generateInitializationVector
LongKeyLen == 40      \* length of the raw keys that exceed every required length

----------------------------------------------------------------------------
(* Bytes and bit operations (JavaScript ^, |, & on values 0..255) *)

RECURSIVE BitXor(_, _)
BitXor(a, b) ==
  IF a = 0 THEN b
  ELSE IF b = 0 THEN a
  ELSE ((((a % 2) + (b % 2)) % 2) + (2 * BitXor(a \div 2, b \div 2)))

RECURSIVE BitOr(_, _)
BitOr(a, b) ==
  IF a = 0 THEN b
  ELSE IF b = 0 THEN a
  ELSE ((IF (a % 2) = 1 \/ (b % 2) = 1 THEN 1 ELSE 0) + (2 * BitOr(a \div 2, b \div 2)))

\* typedArray[i] used as a bitwise operand: an index outside the array (or a
\* fractional one) reads undefined, and ToInt32(undefined) = 0.
Rd(arr, i) == IF i >= 0 /\ i < Len(arr) THEN arr[i + 1] ELSE 0

\* Uint8Array.prototype.slice(start, end) / subarray(start, end), 0-based, end exclusive
Slice(arr, start, end) ==
  LET e == IF end > Len(arr) THEN Len(arr) ELSE end
      s == IF start > e THEN e ELSE start
  IN  [i \in 1..(e - s) |-> arr[s + i]]

Min(a, b) == IF a < b THEN a ELSE b

----------------------------------------------------------------------------
(* Algorithm identifiers: const enum Algorithm and parseAlgorithmToEnum *)

AES_256_CBC == 0
AES_256_GCM == 1
AES_256_CBC_HMAC_SHA512 == 2
CHACHA20_POLY1305 == 3
AES_128_CBC == 4
AES_128_GCM == 5

SymmetricAlgorithm ==
  {"aes-128-cbc", "aes-128-gcm", "aes-256-cbc", "aes-256-gcm",
   "aes-256-cbc-hmac-sha512", "chacha20-poly1305"}

\* A JavaScript value handed as options.algorithm (or options.algorithm.name):
\* [t |-> "undefined"], [t |-> "string", s |-> name], [t |-> "number", n |-> k]
Undef == [t |-> "undefined"]
Str(s) == [t |-> "string", s |-> s]
Num(n) == [t |-> "number", n |-> n]

\* Outcome of a call that can throw
Ok(v) == [ok |-> TRUE, v |-> v]
Throw(e) == [ok |-> FALSE, err |-> e]

parseAlgorithmToEnum(value) ==
  IF value.t \notin {"number", "string"}
    THEN Throw("Algorithm must be a string or a number")
  ELSE IF value.t = "number" THEN Ok(value.n)
  ELSE IF value.s = "aes-128-cbc" THEN Ok(AES_128_CBC)
  ELSE IF value.s = "aes-128-gcm" THEN Ok(AES_128_GCM)
  ELSE IF value.s = "aes-256-cbc" THEN Ok(AES_256_CBC)
  ELSE IF value.s = "aes-256-gcm" THEN Ok(AES_256_GCM)
  ELSE IF value.s = "aes-256-cbc-hmac-sha512" THEN Ok(AES_256_CBC_HMAC_SHA512)
  ELSE IF value.s = "chacha20-poly1305" THEN Ok(CHACHA20_POLY1305)
  ELSE Throw("Unsupported algorithm")

----------------------------------------------------------------------------
(* SymmetricKey *)

\* options.algorithm as the constructor receives it:
\*   [kind |-> "absent"]                          no algorithm option
\*   [kind |-> "value", v |-> Str(..) / Num(..)]  symbolic name or enum member
\*   [kind |-> "object", name |-> Str(..), length |-> n]   {name, length}; length 0 = not given
OptAbsent == [kind |-> "absent"]
OptValue(v) == [kind |-> "value", v |-> v]
OptObject(name, length) == [kind |-> "object", name |-> name, length |-> length]

\* The resolved (algorithm, length) of the switch at aes.ts:275-311
ResolveAlgorithm(alg, option) ==
  IF alg = AES_128_CBC THEN Ok([algorithm |-> "aes-128-cbc", length |-> 128 \div 8])
  ELSE IF alg = AES_256_CBC THEN Ok([algorithm |-> "aes-256-cbc", length |-> 256 \div 8])
  ELSE IF alg = AES_128_GCM THEN Ok([algorithm |-> "aes-128-gcm", length |-> 128 \div 8])
  ELSE IF alg = AES_256_CBC_HMAC_SHA512
    THEN Ok([algorithm |-> "aes-256-cbc-hmac-sha512", length |-> 256 \div 8])
  ELSE IF alg = AES_256_GCM THEN Ok([algorithm |-> "aes-256-gcm", length |-> 256 \div 8])
  ELSE IF alg = CHACHA20_POLY1305
    THEN Ok([algorithm |-> "chacha20-poly1305", length |-> 256 \div 8])
  ELSE IF option.kind # "object" THEN Throw("Unsupported algorithm")
  ELSE IF option.length = 0 THEN Throw("Unsupported algorithm")
  ELSE Ok([algorithm |-> "custom", length |-> option.length])

\* The split of the raw bytes at aes.ts:313-320.  An absent hmacKey is
\* hasHmacKey = FALSE (the field stays undefined).
SplitKey_GE(raw, length) ==
  IF Len(raw) >= length
    THEN [key |-> Slice(raw, 0, length), hasHmacKey |-> TRUE,
          hmacKey |-> Slice(raw, length, Len(raw)), original |-> raw]
    ELSE [key |-> raw, hasHmacKey |-> FALSE, hmacKey |-> <<>>, original |-> raw]

SplitKey(raw, length) ==
  IF Len(raw) > length
    THEN [key |-> Slice(raw, 0, length), hasHmacKey |-> TRUE,
          hmacKey |-> Slice(raw, length, Len(raw)), original |-> raw]
    ELSE [key |-> raw, hasHmacKey |-> FALSE, hmacKey |-> <<>>, original |-> raw]

\* new SymmetricKey(key, options): the instance, or the thrown error.
\* keyArg is [given |-> BOOLEAN, bytes |-> raw]; given = FALSE is a falsy key.
NewSymmetricKey(keyArg, option) ==
  IF ~keyArg.given THEN Throw("No key provided")
  ELSE
    LET parsed == parseAlgorithmToEnum(
                    IF option.kind = "object" THEN option.name
                    ELSE IF option.kind = "value" THEN option.v
                    ELSE Undef)
    IN  IF ~parsed.ok THEN parsed
        ELSE
          LET res == ResolveAlgorithm(parsed.v, option)
          IN  IF ~res.ok THEN res
              ELSE
                LET sp == SplitKey(keyArg.bytes, res.v.length)
                IN  Ok([algorithm |-> res.v.algorithm,
                        length |-> res.v.length,
                        key |-> sp.key,
                        hasHmacKey |-> sp.hasHmacKey,
                        hmacKey |-> sp.hmacKey,
                        original |-> sp.original])

\* The XOR fold of generateInitializationVector (aes.ts:354-358)
FoldWrongHalf(k) ==
  [i \in 1..(k.length \div 2) |->
     BitXor(Rd(k.original, i - 1), Rd(k.original, (i - 1) + k.length))]

Fold(k) ==
  [i \in 1..(k.length \div 2) |->
     BitXor(Rd(k.original, i - 1), Rd(k.original, (i - 1) + (k.length \div 2)))]

\* A store typedArray[i] = v: an index outside the array is ignored, the
\* array never grows.
TypedStore(arr, i, v) ==
  IF i >= 0 /\ i < Len(arr) THEN [arr EXCEPT ![i + 1] = v] ELSE arr

\* The extension loop at aes.ts:363-365, from index i up to stopLength
RECURSIVE ExtendLoop(_, _, _, _)
ExtendLoop(output, original, i, stopLength) ==
  IF i < stopLength
    THEN ExtendLoop(
           TypedStore(output, i,
             BitOr(IF Len(output) = 0 THEN 0 ELSE Rd(original, i % Len(output)), 128)),
           original, i + 1, stopLength)
    ELSE output

\* A generateInitializationVector that folds the head of the raw key with
\* its tail, the bytes kept as the MAC key included
generateInitializationVector_FromTail(k, stopLength) ==
  LET output == [i \in 1..(k.length \div 2) |->
                   BitXor(Rd(k.original, i - 1), Rd(k.original, Len(k.original) - i))]
  IN  IF stopLength < 1 THEN output
      ELSE IF Len(output) > stopLength THEN Slice(output, 0, stopLength)
      ELSE ExtendLoop(output, k.original, Len(output), stopLength)

\* generateInitializationVector(stopLength); stopLength 0 = argument omitted
generateInitializationVector(k, stopLength) ==
  LET output == Fold(k)
  IN  IF stopLength < 1 THEN output
      ELSE IF Len(output) > stopLength THEN Slice(output, 0, stopLength)
      ELSE ExtendLoop(output, k.original, Len(output), stopLength)

\* SymmetricKey.wrap(key, options) on the heap: the heap afterwards and the
\* returned reference, or the thrown error.
\* x is [isKey |-> TRUE, ref |-> r] for a SymmetricKey instance and
\* [isKey |-> FALSE, given |-> .., bytes |-> ..] for a Uint8Array.
wrap_Rewrap(heap, x, option) ==
  LET r == NewSymmetricKey(
             IF x.isKey THEN [given |-> TRUE, bytes |-> heap[x.ref].original]
             ELSE [given |-> x.given, bytes |-> x.bytes], option)
  IN  IF r.ok THEN [heap |-> Append(heap, r.v), res |-> Ok(Len(heap) + 1)]
      ELSE [heap |-> heap, res |-> r]

wrap(heap, x, option) ==
  IF x.isKey THEN [heap |-> heap, res |-> Ok(x.ref)]
  ELSE
    LET r == NewSymmetricKey([given |-> x.given, bytes |-> x.bytes], option)
    IN  IF r.ok THEN [heap |-> Append(heap, r.v), res |-> Ok(Len(heap) + 1)]
        ELSE [heap |-> heap, res |-> r]

----------------------------------------------------------------------------
(* Text and bytes: XBuffer.fromString(str).buffer and XBuffer.toString() *)

\* A text is the sequence of its UTF-16 code units.  The characters the model
\* writes out:
ChSpace == 32
ChQuote == 34         \* "
ChDollar == 36        \* $
ChPlus == 43
ChMinus == 45
ChSlash == 47
ChZero == 48
ChColon == 58
ChEquals == 61
ChUpperA == 65
ChBackslash == 92
ChUnderscore == 95
ChLowerA == 97
ChOpenBrace == 123    \* {
ChCloseBrace == 125   \* }
ChReplacement == 65533  \* U+FFFD

\* UTF-8 decoding of one byte: ASCII maps to itself; a byte from 128 on is
\* never part of a valid sequence in this model and decodes to U+FFFD
Chr(b) == IF b < 128 THEN b ELSE ChReplacement

\* XBuffer.toString('utf-8')
ToText(bytes) == [i \in 1..Len(bytes) |-> Chr(bytes[i])]

\* UTF-8 bytes of one code unit
CharBytes(c) ==
  IF c < 128 THEN <<c>>
  ELSE IF c < 2048 THEN <<192 + (c \div 64), 128 + (c % 64)>>
  ELSE <<224 + (c \div 4096), 128 + ((c \div 64) % 64), 128 + (c % 64)>>

RECURSIVE ConcatCharBytes(_)
ConcatCharBytes(text) ==
  IF Len(text) = 0 THEN <<>> ELSE CharBytes(text[1]) \o ConcatCharBytes(Tail(text))

\* XBuffer.fromString(str).buffer
ToBytes(text) ==
  IF \A i \in 1..Len(text) : text[i] < 128
    THEN text
    ELSE ConcatCharBytes(text)

\* Lower-case hexadecimal digit of a value 0..15
HexDigit(v) == IF v < 10 THEN ChZero + v ELSE ChLowerA + (v - 10)

\* XBuffer.toString('hex'): two lower-case digits per byte
ToHex(bytes) ==
  [i \in 1..(2 * Len(bytes)) |->
     IF i % 2 = 1 THEN HexDigit(bytes[(i + 1) \div 2] \div 16)
     ELSE HexDigit(bytes[(i + 1) \div 2] % 16)]

\* The framing delimiter "$::$"
Delimiter == <<ChDollar, ChColon, ChColon, ChDollar>>

\* String.prototype.indexOf(needle), from position from on (0-based, -1 when
\* absent)
RECURSIVE IndexFrom(_, _, _)
IndexFrom(text, needle, from) ==
  IF from + Len(needle) > Len(text) THEN -1
  ELSE IF \A j \in 1..Len(needle) : text[from + j] = needle[j] THEN from
  ELSE IndexFrom(text, needle, from + 1)

IndexOf(text, needle) == IndexFrom(text, needle, 0)

\* String.prototype.split(separator): every non-overlapping occurrence, left
\* to right, separates two parts
RECURSIVE SplitText(_, _)
SplitText(text, sep) ==
  IF IndexOf(text, sep) < 0 THEN <<text>>
  ELSE <<SubSeq(text, 1, IndexOf(text, sep))>>
       \o SplitText(SubSeq(text, IndexOf(text, sep) + Len(sep) + 1, Len(text)), sep)

\* String.prototype.trim(): white space of the ASCII range
IsSpace(c) == c \in {9, 10, 11, 12, 13, 32}

RECURSIVE TrimStart(_)
TrimStart(text) ==
  IF Len(text) > 0 /\ IsSpace(text[1]) THEN TrimStart(Tail(text)) ELSE text

RECURSIVE TrimEnd(_)
TrimEnd(text) ==
  IF Len(text) > 0 /\ IsSpace(text[Len(text)])
    THEN TrimEnd(SubSeq(text, 1, Len(text) - 1)) ELSE text

Trim(text) == TrimEnd(TrimStart(text))

----------------------------------------------------------------------------
(* base64: XBuffer.toString('base64') and XBuffer.fromString(s, {encoding: 'base64'}) *)

\* Character of a 6-bit value in the standard alphabet
B64Char(v) ==
  IF v < 26 THEN ChUpperA + v
  ELSE IF v < 52 THEN ChLowerA + (v - 26)
  ELSE IF v < 62 THEN ChZero + (v - 52)
  ELSE IF v = 62 THEN ChPlus ELSE ChSlash

\* 6-bit value of a character, -1 for a character outside the alphabet
B64Value(c) ==
  IF c >= ChUpperA /\ c < ChUpperA + 26 THEN c - ChUpperA
  ELSE IF c >= ChLowerA /\ c < ChLowerA + 26 THEN (c - ChLowerA) + 26
  ELSE IF c >= ChZero /\ c < ChZero + 10 THEN (c - ChZero) + 52
  ELSE IF c = ChPlus \/ c = ChMinus THEN 62
  ELSE IF c = ChSlash \/ c = ChUnderscore THEN 63
  ELSE -1

\* encodeBase64(buffer), padded, three bytes per step, then the remainder; a
\* long buffer is encoded in two parts cut at a multiple of three bytes
RECURSIVE encodeBase64(_)
encodeBase64(buffer) ==
  IF Len(buffer) = 0 THEN <<>>
  ELSE IF Len(buffer) > 6 THEN
    encodeBase64(SubSeq(buffer, 1, 3 * (Len(buffer) \div 6)))
    \o encodeBase64(SubSeq(buffer, (3 * (Len(buffer) \div 6)) + 1, Len(buffer)))
  ELSE IF Len(buffer) = 1 THEN
    LET a == buffer[1]
    IN  <<B64Char(a \div 4), B64Char((a * 16) % 64), ChEquals, ChEquals>>
  ELSE IF Len(buffer) = 2 THEN
    LET a == buffer[1]
        b == buffer[2]
    IN  <<B64Char(a \div 4), B64Char(((a * 16) % 64) + (b \div 16)),
          B64Char((b * 4) % 64), ChEquals>>
  ELSE
    LET a == buffer[1]
        b == buffer[2]
        c == buffer[3]
    IN  <<B64Char(a \div 4), B64Char(((a * 16) % 64) + (b \div 16)),
          B64Char(((b * 4) % 64) + (c \div 64)), B64Char(c % 64)>>
        \o encodeBase64(SubSeq(buffer, 4, Len(buffer)))

\* The 6-bit values of the characters before the first "=", characters
\* outside the alphabet skipped (Buffer.from(s, 'base64') is lenient)
RECURSIVE B64Values(_)
B64Values(text) ==
  IF Len(text) = 0 \/ text[1] = ChEquals THEN <<>>
  ELSE IF B64Value(text[1]) < 0 THEN B64Values(Tail(text))
  ELSE <<B64Value(text[1])>> \o B64Values(Tail(text))

RECURSIVE B64Bytes(_)
B64Bytes(vs) ==
  IF Len(vs) < 2 THEN <<>>
  ELSE IF Len(vs) = 2 THEN <<(vs[1] * 4) + (vs[2] \div 16)>>
  ELSE IF Len(vs) = 3
    THEN <<(vs[1] * 4) + (vs[2] \div 16), ((vs[2] % 16) * 16) + (vs[3] \div 4)>>
  ELSE <<(vs[1] * 4) + (vs[2] \div 16), ((vs[2] % 16) * 16) + (vs[3] \div 4),
         ((vs[3] % 4) * 64) + vs[4]>> \o B64Bytes(SubSeq(vs, 5, Len(vs)))

BufferFromBase64(text) == B64Bytes(B64Values(text))

----------------------------------------------------------------------------
(* JSON.stringify and JSON.parse on the payload values of the model *)

\* Payload values: a string, a non-negative integer, the plain object
\* {"a": <string>}, and an instance of a class
JStr(s) == [t |-> "string", s |-> s, n |-> 0]
JNum(n) == [t |-> "number", s |-> <<>>, n |-> n]
JObj(s) == [t |-> "object", s |-> s, n |-> 0]
JInstance == [t |-> "instance", s |-> <<>>, n |-> 0]
JBigInt == [t |-> "bigint", s |-> <<>>, n |-> 0]

Quote == ChQuote
Backslash == ChBackslash

RECURSIVE EscapeJSON(_)
EscapeJSON(s) ==
  IF Len(s) = 0 THEN <<>>
  ELSE IF Len(s) = 1
    THEN (IF s[1] = Quote \/ s[1] = Backslash THEN <<Backslash, s[1]>> ELSE <<s[1]>>)
  ELSE EscapeJSON(SubSeq(s, 1, Len(s) \div 2))
       \o EscapeJSON(SubSeq(s, (Len(s) \div 2) + 1, Len(s)))

RECURSIVE Digits(_)
Digits(n) ==
  IF n < 10 THEN <<ChZero + n>> ELSE Digits(n \div 10) \o <<ChZero + (n % 10)>>

\* JSON.stringify(value)
Stringify(v) ==
  IF v.t = "string" THEN <<Quote>> \o EscapeJSON(v.s) \o <<Quote>>
  ELSE IF v.t = "number" THEN Digits(v.n)
  ELSE <<ChOpenBrace, Quote, ChLowerA, Quote, ChColon, Quote>>
       \o EscapeJSON(v.s) \o <<Quote, ChCloseBrace>>

\* The characters of a JSON string literal whose opening quote has been
\* read: the unescaped content when text ends right after the closing quote
RECURSIVE ScanString(_, _)
ScanString(text, acc) ==
  IF Len(text) = 0 THEN Throw("SyntaxError")
  ELSE IF text[1] = Quote
    THEN (IF Len(text) = 1 THEN Ok(acc) ELSE Throw("SyntaxError"))
  ELSE IF text[1] = Backslash
    THEN (IF Len(text) >= 2 /\ text[2] \in {Quote, Backslash}
            THEN ScanString(SubSeq(text, 3, Len(text)), Append(acc, text[2]))
            ELSE Throw("SyntaxError"))
  ELSE IF text[1] < 32 THEN Throw("SyntaxError")
  ELSE ScanString(Tail(text), Append(acc, text[1]))

IsDigit(c) == c >= ChZero /\ c < ChZero + 10

RECURSIVE DigitsValue(_)
DigitsValue(text) ==
  IF Len(text) = 0 THEN 0
  ELSE (10 * DigitsValue(SubSeq(text, 1, Len(text) - 1))) + (text[Len(text)] - ChZero)

ObjectOpen == <<ChOpenBrace, Quote, ChLowerA, Quote, ChColon, Quote>>

\* JSON.parse(text) for the texts of the model: the value, or a SyntaxError
Parse(text) ==
  IF Len(text) = 0 THEN Throw("SyntaxError")
  ELSE IF text[1] = Quote THEN
    LET r == ScanString(Tail(text), <<>>)
    IN  IF r.ok THEN Ok(JStr(r.v)) ELSE r
  ELSE IF \A i \in 1..Len(text) : IsDigit(text[i]) THEN
    (IF Len(text) > 1 /\ text[1] = ChZero THEN Throw("SyntaxError")
     ELSE Ok(JNum(DigitsValue(text))))
  ELSE IF /\ Len(text) > Len(ObjectOpen) + 1
          /\ SubSeq(text, 1, Len(ObjectOpen)) = ObjectOpen
          /\ text[Len(text)] = ChCloseBrace THEN
    LET r == ScanString(SubSeq(text, Len(ObjectOpen) + 1, Len(text) - 1), <<>>)
    IN  IF r.ok THEN Ok(JObj(r.v)) ELSE r
  ELSE Throw("SyntaxError")

\* isPlainObject(data) of typesdk, on the payload values of the model
isPlainObject(v) == v.t = "object"

\* typeof data === 'object'
IsObjectType(v) == v.t \in {"object", "instance"}

\* JSON.stringify(data) throws a TypeError (a BigInt value)
StringifyThrows(v) == v.t = "bigint"

----------------------------------------------------------------------------
(* External collaborators: HMAC and the cipher primitives *)

\* hmac(data, key, 'sha512') as an ideal MAC: a function of (key, data) that
\* is injective on keys of one length
hmac(data, key) == key \o data

RECURSIVE Sum(_)
Sum(bytes) == IF Len(bytes) = 0 THEN 0 ELSE bytes[1] + Sum(Tail(bytes))

PrimTag(name) ==
  CASE name = "aes-128-cbc" -> 1
    [] name = "aes-128-gcm" -> 2
    [] name = "aes-256-cbc" -> 3
    [] name = "aes-256-gcm" -> 4
    [] name = "aes-256-cbc-hmac-sha512" -> 5
    [] name = "chacha20-poly1305" -> 6
    [] name = "AES-CBC" -> 7
    [] OTHER -> 8

\* A cipher primitive as a keyed bijection on byte strings: every byte is
\* XORed with a non-zero mask that depends on the primitive, the key and the IV
Mask(name, key, iv) == 1 + ((Sum(key) + (7 * Sum(iv)) + (31 * PrimTag(name))) % 255)

\* createCipheriv(name, key, iv) / subtle.encrypt: update + final
PrimEncrypt(name, key, iv, plain) ==
  LET m == Mask(name, key, iv)
  IN  [i \in 1..Len(plain) |-> BitXor(plain[i], m)]

\* createDecipheriv(name, key, iv) / subtle.decrypt: update + final; an empty
\* input is the input the primitive rejects
PrimDecrypt(name, key, iv, data) ==
  IF Len(data) = 0 THEN Throw("CryptographicError")
  ELSE LET m == Mask(name, key, iv)
       IN  Ok([i \in 1..Len(data) |-> BitXor(data[i], m)])

\* crypto-js AES.encrypt(text, passphrase).toString(): base64 of the salt
\* followed by the text's bytes under a mask of passphrase and salt
CryptoJsMask(pass, salt) == 1 + ((Sum(pass) + salt) % 255)

CryptoJsEncrypt(text, pass, salt) ==
  encodeBase64(<<salt>> \o PrimEncrypt("crypto-js", <<CryptoJsMask(pass, salt)>>, <<>>,
                                       ToBytes(text)))

\* crypto-js AES.decrypt(text, passphrase).toString(enc.Utf8); Utf8 rejects
\* bytes that are not text
CryptoJsDecrypt(text, pass) ==
  IF Len(BufferFromBase64(text)) = 0 THEN Ok(<<>>)
  ELSE
    LET raw == BufferFromBase64(text)
        bytes == PrimEncrypt("crypto-js", <<CryptoJsMask(pass, raw[1])>>, <<>>, Tail(raw))
    IN  IF \E i \in 1..Len(bytes) : bytes[i] >= 128
          THEN Throw("Malformed UTF-8 data")
          ELSE Ok(ToText(bytes))

----------------------------------------------------------------------------
(* AES and ChaCha20: framing, encryption and decryption *)

MalformedMessage == "Malformed encrypted data. It does not contain the HMAC signature."
TamperedMessage == "Invalid HMAC signature. The data has been tampered with."

\* hex(signature) + "$::$" + text of the data, as bytes (aes.ts:14-15, 52-54,
\* chacha20.ts:37-38)
FramePayload(data, key) ==
  ToBytes(ToHex(hmac(data, Slice(key, 0, 8))) \o Delimiter \o ToText(data))

\* What a decryption got out of a ciphertext
NoFrame ==
  [ok |-> FALSE, err |-> "", hasStr |-> FALSE, str |-> <<>>,
   hasSplit |-> FALSE, signature |-> <<>>, payloadText |-> <<>>,
   sign |-> <<>>, payload |-> <<>>]

\* The check of the decrypted text str (aes.ts:73-86, 105-120, 129-142,
\* chacha20.ts:59-76); malformed is the message used when the delimiter is
\* missing
DecodeFrame(str, key, malformed) ==
  IF IndexOf(str, Delimiter) < 0
    THEN [NoFrame EXCEPT !.err = malformed, !.hasStr = TRUE, !.str = str]
  ELSE
    LET parts == SplitText(str, Delimiter)
        signature == Trim(parts[1])
        payload == Trim(parts[2])
        sign == hmac(ToBytes(payload), Slice(key, 0, 8))
        hexSignature == ToHex(sign)
        split == [NoFrame EXCEPT !.hasStr = TRUE, !.str = str, !.hasSplit = TRUE,
                                 !.signature = signature, !.payloadText = payload]
    IN  IF hexSignature # signature
          THEN [split EXCEPT !.err = TamperedMessage]
          ELSE [split EXCEPT !.ok = TRUE, !.sign = sign, !.payload = ToBytes(payload)]

\* The primitive _aesEncryptIV / _aesDecryptIV hand the work to: Node's
\* cipher of the given name, or WebCrypto's AES-CBC (aes.ts:22, 35, 44-45)
AesPrimitive(e, algorithm) == IF e = "node" THEN algorithm ELSE "AES-CBC"

\* _aesEncryptIV(algorithm, data, key, iv)
aesEncryptIV(e, algorithm, data, key, iv) ==
  PrimEncrypt(AesPrimitive(e, algorithm), key, iv, FramePayload(data, key))

\* _aesEncrypt(data, key): crypto-js with the key's text as passphrase; salt is
\* the random salt crypto-js draws
aesEncrypt(data, key, salt) ==
  ToBytes(CryptoJsEncrypt(ToText(FramePayload(data, key)), ToText(key), salt))

\* _aesDecryptIV(algorithm, data, key, iv)
aesDecryptIV(e, algorithm, data, key, iv) ==
  LET p == PrimDecrypt(AesPrimitive(e, algorithm), key, iv, data)
  IN  IF ~p.ok THEN [NoFrame EXCEPT !.err = p.err]
      ELSE DecodeFrame(ToText(p.v), key, MalformedMessage)

\* _aesDecrypt(data, key)
aesDecrypt(data, key) ==
  LET d == CryptoJsDecrypt(ToText(data), ToText(key))
  IN  IF ~d.ok THEN [NoFrame EXCEPT !.err = d.err]
      ELSE DecodeFrame(d.v, key, MalformedMessage)

\* Outcome of an encrypt call
NoEnc ==
  [ok |-> FALSE, err |-> "", ct |-> <<>>, prim |-> "none", usedIV |-> FALSE,
   ivStop |-> 0, iv |-> <<>>, hmacCalled |-> FALSE, primCalled |-> FALSE]

\* An AES.#DoEncryption that signs its argument before it looks at its type
AesDoEncryption_SignFirst(heap, c, e, data, salt) ==
  IF IsObjectType(data) /\ ~isPlainObject(data)
    THEN [NoEnc EXCEPT !.err = "Invalid data type", !.hmacCalled = TRUE]
  ELSE IF StringifyThrows(data)
    THEN [NoEnc EXCEPT !.err = "Non serializable data", !.hmacCalled = TRUE]
  ELSE
    LET k == heap[c.key]
        bytes == ToBytes(Stringify(data))
    IN  IF c.unsafeMode
          THEN [NoEnc EXCEPT !.ok = TRUE, !.ct = aesEncrypt(bytes, k.key, salt),
                             !.prim = "crypto-js",
                             !.hmacCalled = TRUE, !.primCalled = TRUE]
          ELSE
            LET iv == generateInitializationVector(k, 0)
            IN  [NoEnc EXCEPT !.ok = TRUE,
                   !.ct = aesEncryptIV(e, k.algorithm, bytes, k.key, iv),
                   !.prim = AesPrimitive(e, k.algorithm),
                   !.usedIV = TRUE, !.iv = iv,
                   !.hmacCalled = TRUE, !.primCalled = TRUE]

\* AES.#DoEncryption(data) for the instance c; hmacCalled and primCalled tell
\* whether the call reached hmac (aes.ts:14, 52) and the cipher primitive
\* (aes.ts:21-24, 44-45, 56-57)
AesDoEncryption(heap, c, e, data, salt) ==
  IF IsObjectType(data) /\ ~isPlainObject(data)
    THEN [NoEnc EXCEPT !.err = "Invalid data type"]
  ELSE IF StringifyThrows(data)
    THEN [NoEnc EXCEPT !.err = "Non serializable data"]
  ELSE
    LET k == heap[c.key]
        bytes == ToBytes(Stringify(data))
    IN  IF c.unsafeMode
          THEN [NoEnc EXCEPT !.ok = TRUE, !.ct = aesEncrypt(bytes, k.key, salt),
                             !.prim = "crypto-js",
                             !.hmacCalled = TRUE, !.primCalled = TRUE]
          ELSE
            LET iv == generateInitializationVector(k, 0)
            IN  [NoEnc EXCEPT !.ok = TRUE,
                   !.ct = aesEncryptIV(e, k.algorithm, bytes, k.key, iv),
                   !.prim = AesPrimitive(e, k.algorithm),
                   !.usedIV = TRUE, !.iv = iv,
                   !.hmacCalled = TRUE, !.primCalled = TRUE]

\* ChaCha20.#DoEncryption(data)
ChaChaDoEncryption(heap, c, data) ==
  IF IsObjectType(data) /\ ~isPlainObject(data)
    THEN [NoEnc EXCEPT !.err = "Invalid data type"]
  ELSE IF StringifyThrows(data)
    THEN [NoEnc EXCEPT !.err = "Non serializable data"]
  ELSE
    LET k == heap[c.key]
        bytes == ToBytes(Stringify(data))
        iv == generateInitializationVector(k, 12)
    IN  [NoEnc EXCEPT !.ok = TRUE,
           !.ct = PrimEncrypt("chacha20-poly1305", k.key, iv, FramePayload(bytes, k.key)),
           !.prim = "chacha20-poly1305",
           !.usedIV = TRUE, !.ivStop = 12, !.iv = iv,
           !.hmacCalled = TRUE, !.primCalled = TRUE]

\* Outcome of a decrypt call: the Decrypted value (payload, signature) or the
\* error; str is the decrypted text, splitSignature and splitPayload the two
\* parts the call took from it, parsed tells whether JSON.parse was reached.
\* Decrypted.timestamp (Date.now()) is left out.
NoDec ==
  [ok |-> FALSE, err |-> "", hasStr |-> FALSE, str |-> <<>>,
   hasSplit |-> FALSE, splitSignature |-> <<>>, splitPayload |-> <<>>,
   parsed |-> FALSE,
   payload |-> JNum(0), signature |-> <<>>, usedIV |-> FALSE, ivStop |-> 0, iv |-> <<>>,
   prim |-> "none", invoked |-> FALSE]

\* JSON.parse of the verified payload and the frozen result (aes.ts:196-200,
\* chacha20.ts:75-82)
FinishDecryption(f, usedIV, ivStop, iv) ==
  LET base == [NoDec EXCEPT !.hasStr = f.hasStr, !.str = f.str,
                            !.hasSplit = f.hasSplit,
                            !.splitSignature = f.signature,
                            !.splitPayload = f.payloadText,
                            !.usedIV = usedIV, !.ivStop = ivStop, !.iv = iv]
  IN  IF ~f.ok THEN [base EXCEPT !.err = f.err]
      ELSE
        LET parsed == Parse(ToText(f.payload))
        IN  IF ~parsed.ok THEN [base EXCEPT !.err = parsed.err, !.parsed = TRUE]
            ELSE [base EXCEPT !.ok = TRUE, !.parsed = TRUE,
                              !.payload = parsed.v, !.signature = f.sign]

\* AES.#DoDecryption(data)
AesDoDecryption(heap, c, e, data) ==
  LET k == heap[c.key]
  IN  IF c.unsafeMode
        THEN [FinishDecryption(aesDecrypt(data, k.key), FALSE, 0, <<>>)
                EXCEPT !.prim = "crypto-js", !.invoked = TRUE]
        ELSE
          LET iv == generateInitializationVector(k, 0)
          IN  [FinishDecryption(aesDecryptIV(e, k.algorithm, data, k.key, iv), TRUE, 0, iv)
                 EXCEPT !.prim = AesPrimitive(e, k.algorithm), !.invoked = TRUE]

\* ChaCha20.#DoDecryption(data)
ChaChaDoDecryption(heap, c, data) ==
  LET k == heap[c.key]
      iv == generateInitializationVector(k, 12)
      p == PrimDecrypt("chacha20-poly1305", k.key, iv, data)
      r == IF ~p.ok THEN FinishDecryption([NoFrame EXCEPT !.err = p.err], TRUE, 12, iv)
           ELSE FinishDecryption(DecodeFrame(ToText(p.v), k.key, TamperedMessage), TRUE, 12, iv)
  IN  [r EXCEPT !.prim = "chacha20-poly1305", !.invoked = TRUE]

----------------------------------------------------------------------------
(* Slicer (src/_internal/resources/Slicer) and BlockCipher *)

ChecksumMismatchError == "ChecksumMismatchError"
MalformedChunkSetError == "MalformedChunkSetError"

\* The fixed digest of a text, as an ideal hash: injective on texts
SlicerDigest(text) == ToHex(ToBytes(text))

\* slicer.slice(): ordered, non-overlapping chunks of chunkSize characters (the
\* last one may be shorter), numbered from index on, each with its own hash
RECURSIVE SlicerSlice(_, _, _)
SlicerSlice(content, chunkSize, index) ==
  IF Len(content) = 0 THEN <<>>
  ELSE <<[index |-> index,
          hash |-> SlicerDigest(SubSeq(content, 1, Min(chunkSize, Len(content)))),
          value |-> SubSeq(content, 1, Min(chunkSize, Len(content)))]>>
       \o SlicerSlice(SubSeq(content, Min(chunkSize, Len(content)) + 1, Len(content)),
                      chunkSize, index + 1)

\* The values of the chunks numbered from..(n - 1), in index order
RECURSIVE ConcatChunks(_, _)
ConcatChunks(chunks, from) ==
  IF from >= Len(chunks) THEN <<>>
  ELSE chunks[CHOOSE i \in 1..Len(chunks) : chunks[i].index = from].value
       \o ConcatChunks(chunks, from + 1)

\* The values of the chunks in the order the caller gave them
RECURSIVE ConcatGiven(_)
ConcatGiven(chunks) ==
  IF Len(chunks) = 0 THEN <<>> ELSE chunks[1].value \o ConcatGiven(Tail(chunks))

\* A join that trusts the caller's order and does not sort by index
SlicerJoin_GivenOrder(chunks, checksum) ==
  IF \E j \in 0..(Len(chunks) - 1) : Cardinality({i \in 1..Len(chunks) : chunks[i].index = j}) # 1
    THEN Throw(MalformedChunkSetError)
  ELSE IF SlicerDigest(ConcatGiven(chunks)) # checksum
    THEN Throw(ChecksumMismatchError)
  ELSE Ok(ConcatGiven(chunks))

\* Slicer.join(chunks, checksum): the chunks in index order, concatenated; the
\* indices must be exactly 0..n-1 and the digest of the content must be checksum
SlicerJoin(chunks, checksum) ==
  IF \E j \in 0..(Len(chunks) - 1) : Cardinality({i \in 1..Len(chunks) : chunks[i].index = j}) # 1
    THEN Throw(MalformedChunkSetError)
  ELSE IF SlicerDigest(ConcatChunks(chunks, 0)) # checksum
    THEN Throw(ChecksumMismatchError)
  ELSE Ok(ConcatChunks(chunks, 0))

\* this.#options.blockSize ?? 512 (0 stands for an absent option)
DefaultBlockSize == 512

\* A block size that falls back to half the default
BlockSizeOf_HalfDefault(blockSize) ==
  IF blockSize = 0 THEN DefaultBlockSize \div 2 ELSE blockSize

BlockSizeOf(blockSize) == IF blockSize = 0 THEN DefaultBlockSize ELSE blockSize

\* XBuffer.fromString(text, { encoding: 'base64' }).buffer: Buffer.from decodes
\* the text where Node's Buffer exists; the TextEncoder path encodes the
\* characters and leaves the encoding aside
FromBase64String(e, text) == IF e = "node" THEN BufferFromBase64(text) ELSE ToBytes(text)

\* The properties of the object #DoEncryption returns (core.ts:136-140)
BlockResultFields == {"blocks", "checksum", "timestamp"}

\* Outcome of BlockCipher.encrypt: the BlockResult (its property names in
\* fields, frozen when Object.freeze was applied to it and to its blocks) or
\* the error; content is the text handed to the Slicer
NoBlockResult ==
  [ok |-> FALSE, err |-> "", blocks |-> <<>>, checksum |-> <<>>,
   content |-> <<>>, hmacCalled |-> FALSE, primCalled |-> FALSE,
   fields |-> {}, frozen |-> FALSE]

\* BlockCipher.#DoEncryption(data)
BlockDoEncryption(heap, c, e, data, salt, blockSize) ==
  IF IsObjectType(data) /\ ~isPlainObject(data)
    THEN [NoBlockResult EXCEPT !.err = "Invalid data type"]
  ELSE
    LET output == IF c.family = "AES" THEN AesDoEncryption(heap, c, e, data, salt)
                  ELSE ChaChaDoEncryption(heap, c, data)
    IN  IF ~output.ok
          THEN [NoBlockResult EXCEPT !.err = output.err,
                  !.hmacCalled = output.hmacCalled, !.primCalled = output.primCalled]
        ELSE
          LET content == encodeBase64(output.ct)
              chunks == SlicerSlice(content, BlockSizeOf(blockSize), 0)
          IN  [NoBlockResult EXCEPT !.ok = TRUE, !.content = content,
                 !.fields = BlockResultFields, !.frozen = TRUE,
                 !.hmacCalled = output.hmacCalled, !.primCalled = output.primCalled,
                 !.blocks = [i \in 1..Len(chunks) |->
                               [index |-> chunks[i].index, hash |-> chunks[i].hash,
                                data |-> chunks[i].value]],
                 !.checksum = SlicerDigest(content)]

\* A #DoDecryption that concatenates the blocks itself and leaves Slicer.join
\* and its checksum aside
BlockDoDecryption_Unjoined(heap, c, e, input) ==
  LET blocks == [i \in 1..Len(input.blocks) |->
                   [index |-> input.blocks[i].index, hash |-> input.blocks[i].hash,
                    value |-> input.blocks[i].data]]
      encrypted == Ok(ConcatChunks(blocks, 0))
  IN  IF c.family = "AES"
        THEN AesDoDecryption(heap, c, e, FromBase64String(e, encrypted.v))
        ELSE ChaChaDoDecryption(heap, c, FromBase64String(e, encrypted.v))

\* BlockCipher.#DoDecryption(input)
BlockDoDecryption(heap, c, e, input) ==
  LET blocks == [i \in 1..Len(input.blocks) |->
                   [index |-> input.blocks[i].index, hash |-> input.blocks[i].hash,
                    value |-> input.blocks[i].data]]
      encrypted == SlicerJoin(blocks, input.checksum)
  IN  IF ~encrypted.ok THEN [NoDec EXCEPT !.err = encrypted.err]
      ELSE IF c.family = "AES"
        THEN AesDoDecryption(heap, c, e, FromBase64String(e, encrypted.v))
        ELSE ChaChaDoDecryption(heap, c, FromBase64String(e, encrypted.v))

----------------------------------------------------------------------------
(* Inputs *)

\* Raw key bytes: all zero, or a pattern that covers low and high bytes
ZeroBytes(n) == [i \in 1..n |-> 0]
PatternBytes(n) == [i \in 1..n |-> (3 + 29 * i) % 256]

RawKeys ==
  {ZeroBytes(32)} \cup {PatternBytes(n) : n \in {8, 16, 32, LongKeyLen}}

KeyArgs == {[given |-> FALSE, bytes |-> <<>>]} \cup
           {[given |-> TRUE, bytes |-> b] : b \in RawKeys}

KeyOptions ==
  {OptAbsent}
  \cup {OptValue(Str(a)) : a \in SymmetricAlgorithm \cup {"des-ede3"}}
  \cup {OptValue(Num(n)) : n \in {AES_256_CBC, CHACHA20_POLY1305, AES_128_GCM, 7}}
  \cup {OptObject(Str(a), n) : a \in {"aes-128-cbc", "des-ede3"}, n \in {0, 24}}

StopLengths == {0, 1, 8, 12, 16, MaxStop}

----------------------------------------------------------------------------
(* State *)

NoCipher == [family |-> "none", key |-> 0, unsafeMode |-> FALSE]

NoKRes ==
  [op |-> "none", ok |-> TRUE, err |-> "", ref |-> 0,
   argIsKey |-> FALSE, argRef |-> 0, keyGiven |-> FALSE, option |-> OptAbsent,
   stop |-> 0, out |-> <<>>]

\* Outcome of the last cipher call: what went in (input, data), the mode the
\* call ran in, and what came out.  For a decrypt, roundTrip tells that data is
\* the ciphertext the preceding encrypt of this instance returned, for the
\* payload sent in mode sentUnsafe.
NoCRes ==
  [op |-> "none", ok |-> TRUE, err |-> "", input |-> JNum(0), data |-> <<>>,
   algorithm |-> "", argIsKey |-> FALSE, keyGiven |-> FALSE,
   unsafe |-> FALSE, salt |-> 0, ct |-> <<>>, prim |-> "none",
   usedIV |-> FALSE, ivStop |-> 0, iv |-> <<>>,
   roundTrip |-> FALSE, sent |-> JNum(0), sentUnsafe |-> FALSE,
   hasStr |-> FALSE, str |-> <<>>,
   hasSplit |-> FALSE, splitSignature |-> <<>>, splitPayload |-> <<>>,
   parsed |-> FALSE,
   payload |-> JNum(0), signature |-> <<>>,
   hmacCalled |-> FALSE, primCalled |-> FALSE]

\* The first generateInitializationVector result a caller kept (ref, stop,
\* out), whether other calls happened since (between), and whether the same
\* call was made again after them (again)
NoWatch ==
  [set |-> FALSE, ref |-> 0, stop |-> 0, out |-> <<>>,
   between |-> FALSE, again |-> FALSE]

\* A value handed to the BlockCipher constructor as cipher: its typeof,
\* whether it is null, and whether it has a function encrypt and a function
\* decrypt
NoCollab ==
  [t |-> "undefined", isNull |-> FALSE, hasEncrypt |-> FALSE, hasDecrypt |-> FALSE]

\* The BlockCipher in use (blockSize 0: option absent), the BlockResult the
\* caller holds (blocks, checksum), the blocks as encrypt returned them
\* (produced), and the outcome of the last BlockCipher call
NoBlock ==
  [made |-> FALSE, blockSize |-> 0, op |-> "none", ok |-> TRUE, err |-> "",
   algorithm |-> "", keyGiven |-> FALSE, collab |-> NoCollab,
   blocks |-> <<>>, checksum |-> <<>>, produced |-> <<>>, flipped |-> FALSE,
   sent |-> JNum(0), payload |-> JNum(0),
   hmacCalled |-> FALSE, primCalled |-> FALSE, content |-> <<>>,
   cipherInvoked |-> FALSE, fields |-> {}, frozen |-> FALSE]

\* No MultidimensionalVector constructed yet; afterwards #values, #dimensions
\* and #isFrozen, and the last call with its outcome
NoVector ==
  [made |-> FALSE, values |-> <<>>, dimensions |-> 0, isFrozen |-> FALSE,
   op |-> "none", ok |-> TRUE, err |-> "", wasFrozen |-> FALSE]

\* No byte or text function called yet
NoFound ==
  [op |-> "none", hay |-> <<>>, needle |-> <<>>, offset |-> 0, ok |-> TRUE,
   err |-> "", index |-> 0, bytes |-> <<>>]

\* No Deferred constructed yet
NoDeferred ==
  [made |-> FALSE, _outcome |-> [outcome |-> "none", value |-> 0, reason |-> ""],
   promise |-> [state |-> "pending", value |-> 0, reason |-> ""], calls |-> 0]

\* No PostgresEmbeddingExtension constructed yet: NODE_ENV is not production,
\* the module-level database is null (0), no instance, no Database, no operation
NoPg ==
  [production |-> FALSE, database |-> 0, insts |-> <<>>, conns |-> <<>>, ops |-> <<>>]

----------------------------------------------------------------------------
(* SymmetricKey operations as steps *)

\* new SymmetricKey(key, options)
KeyNew(keyArg, option) ==
  /\ Len(keys) < MaxKeys
  /\ LET r == NewSymmetricKey(keyArg, option)
     IN  IF r.ok
           THEN /\ keys' = Append(keys, r.v)
                /\ kres' = [NoKRes EXCEPT !.op = "new", !.ref = Len(keys) + 1,
                                          !.keyGiven = keyArg.given, !.option = option]
           ELSE /\ keys' = keys
                /\ kres' = [NoKRes EXCEPT !.op = "new", !.ok = FALSE, !.err = r.err,
                                          !.keyGiven = keyArg.given, !.option = option]

\* SymmetricKey.wrap(key, options)
KeyWrap(x, option) ==
  /\ x.isKey \/ Len(keys) < MaxKeys
  /\ LET w == wrap(keys, x, option)
     IN  /\ keys' = w.heap
         /\ kres' = [NoKRes EXCEPT !.op = "wrap",
                       !.ok = w.res.ok,
                       !.err = IF w.res.ok THEN "" ELSE w.res.err,
                       !.ref = IF w.res.ok THEN w.res.v ELSE 0,
                       !.argIsKey = x.isKey,
                       !.keyGiven = x.given,
                       !.option = option,
                       !.argRef = IF x.isKey THEN x.ref ELSE 0]

\* A generateInitializationVector that folds into the key's own #original
\* bytes rather than into a fresh array
KeyGenerateIV_InPlace(ref, stopLength) ==
  /\ ref \in 1..Len(keys)
  /\ kres' = [NoKRes EXCEPT !.op = "iv", !.ref = ref, !.stop = stopLength,
                !.out = generateInitializationVector(keys[ref], stopLength)]
  /\ keys' = [keys EXCEPT ![ref].original =
                 [i \in 1..Len(@) |->
                    IF i <= Len(Fold(keys[ref])) THEN Fold(keys[ref])[i] ELSE @[i]]]

\* key.generateInitializationVector(stopLength)
KeyGenerateIV(ref, stopLength) ==
  /\ ref \in 1..Len(keys)
  /\ kres' = [NoKRes EXCEPT !.op = "iv", !.ref = ref, !.stop = stopLength,
                !.out = generateInitializationVector(keys[ref], stopLength)]
  /\ keys' = keys

WrapArgs ==
  {[isKey |-> TRUE, ref |-> r, given |-> TRUE, bytes |-> <<>>] : r \in 1..Len(keys)}
  \cup {[isKey |-> FALSE, ref |-> 0, given |-> a.given, bytes |-> a.bytes] : a \in KeyArgs}

----------------------------------------------------------------------------
(* Cipher operations as steps *)

\* algorithm.toLowerCase().indexOf('aes') >= 0 on the names of the model
IncludesAes(algorithm) ==
  algorithm \in {"aes-128-cbc", "aes-128-gcm", "aes-256-cbc", "aes-256-gcm",
                 "aes-256-cbc-hmac-sha512"}

\* new AES(key, algorithm); an instance whose constructor throws is dropped
NewAES(x, algorithm) ==
  /\ cipher = NoCipher
  /\ x.isKey \/ Len(keys) < MaxKeys
  /\ LET w == wrap(keys, x, OptValue(Str(algorithm)))
     IN  IF ~w.res.ok
           THEN /\ cres' = [NoCRes EXCEPT !.op = "newAES", !.algorithm = algorithm,
                                          !.argIsKey = x.isKey, !.keyGiven = x.given, !.ok = FALSE, !.err = w.res.err]
                /\ UNCHANGED <<keys, cipher>>
         ELSE IF ~IncludesAes(w.heap[w.res.v].algorithm)
           THEN /\ cres' = [NoCRes EXCEPT !.op = "newAES", !.algorithm = algorithm,
                                          !.argIsKey = x.isKey, !.keyGiven = x.given, !.ok = FALSE,
                                          !.err = "Invalid algorithm for AES"]
                /\ UNCHANGED <<keys, cipher>>
         ELSE /\ keys' = w.heap
              /\ cipher' = [family |-> "AES", key |-> w.res.v, unsafeMode |-> FALSE]
              /\ cres' = [NoCRes EXCEPT !.op = "newAES", !.algorithm = algorithm,
                                          !.argIsKey = x.isKey, !.keyGiven = x.given]

\* new ChaCha20(key)
NewChaCha20(x) ==
  /\ cipher = NoCipher
  /\ x.isKey \/ Len(keys) < MaxKeys
  /\ IF env = "browser"
       THEN /\ cres' = [NoCRes EXCEPT !.op = "newChaCha20",
                                              !.argIsKey = x.isKey, !.keyGiven = x.given, !.ok = FALSE,
                          !.err = "ChaCha20 is not supported in this environment."]
            /\ UNCHANGED <<keys, cipher>>
       ELSE
         LET w == wrap(keys, x, OptValue(Str("chacha20-poly1305")))
         IN  IF ~w.res.ok
               THEN /\ cres' = [NoCRes EXCEPT !.op = "newChaCha20",
                                              !.argIsKey = x.isKey, !.keyGiven = x.given, !.ok = FALSE,
                                              !.err = w.res.err]
                    /\ UNCHANGED <<keys, cipher>>
               ELSE /\ keys' = w.heap
                    /\ cipher' = [family |-> "ChaCha20", key |-> w.res.v,
                                  unsafeMode |-> FALSE]
                    /\ cres' = [NoCRes EXCEPT !.op = "newChaCha20",
                                              !.argIsKey = x.isKey, !.keyGiven = x.given]

\* A noUseIVCipher() that flips the flag instead of setting it
NoUseIVCipher_Toggle ==
  /\ cipher.family = "AES"
  /\ cipher' = [cipher EXCEPT !.unsafeMode = ~cipher.unsafeMode]
  /\ cres' = [NoCRes EXCEPT !.op = "noUseIVCipher"]
  /\ UNCHANGED keys

\* AES.noUseIVCipher()
NoUseIVCipher ==
  /\ cipher.family = "AES"
  /\ cipher' = [cipher EXCEPT !.unsafeMode = TRUE]
  /\ cres' = [NoCRes EXCEPT !.op = "noUseIVCipher"]
  /\ UNCHANGED keys

\* cipher.encrypt(data)
Encrypt(data, salt) ==
  /\ cipher # NoCipher
  /\ \E r \in {IF cipher.family = "AES"
                 THEN AesDoEncryption(keys, cipher, env, data, salt)
                 ELSE ChaChaDoEncryption(keys, cipher, data)} :
         cres' = [NoCRes EXCEPT !.op = "encrypt", !.ok = r.ok, !.err = r.err,
                    !.input = data, !.unsafe = cipher.unsafeMode, !.salt = salt,
                    !.ct = r.ct, !.prim = r.prim,
                    !.usedIV = r.usedIV, !.ivStop = r.ivStop, !.iv = r.iv,
                    !.hmacCalled = r.hmacCalled, !.primCalled = r.primCalled]
  /\ UNCHANGED <<keys, cipher>>

\* cipher.decrypt(data)
Decrypt(data) ==
  /\ cipher # NoCipher
  /\ \E r \in {IF cipher.family = "AES"
                 THEN AesDoDecryption(keys, cipher, env, data)
                 ELSE ChaChaDoDecryption(keys, cipher, data)},
        rt \in {cres.op = "encrypt" /\ cres.ok /\ data = cres.ct} :
         cres' = [NoCRes EXCEPT !.op = "decrypt", !.ok = r.ok, !.err = r.err,
                    !.data = data, !.unsafe = cipher.unsafeMode, !.prim = r.prim,
                    !.usedIV = r.usedIV, !.ivStop = r.ivStop, !.iv = r.iv,
                    !.roundTrip = rt,
                    !.sent = IF rt THEN cres.input ELSE JNum(0),
                    !.sentUnsafe = IF rt THEN cres.unsafe ELSE FALSE,
                    !.hasStr = r.hasStr, !.str = r.str,
                    !.hasSplit = r.hasSplit,
                    !.splitSignature = r.splitSignature,
                    !.splitPayload = r.splitPayload,
                    !.parsed = r.parsed,
                    !.payload = r.payload, !.signature = r.signature]
  /\ UNCHANGED <<keys, cipher>>

\* Another call happened on the instance whose IV the caller kept
Touch(w) == IF w.set THEN [w EXCEPT !.between = TRUE] ELSE w

\* cipher.key.generateInitializationVector(stopLength); with look the caller
\* keeps the result if it is the first one kept
CipherKeyGenerateIV(stopLength, look) ==
  /\ cipher # NoCipher
  /\ KeyGenerateIV(cipher.key, stopLength)
  /\ watch' = IF ~watch.set
                THEN IF look
                       THEN [NoWatch EXCEPT !.set = TRUE, !.ref = cipher.key,
                                            !.stop = stopLength, !.out = kres'.out]
                       ELSE watch
              ELSE IF stopLength = watch.stop /\ watch.between
                THEN [watch EXCEPT !.again = TRUE]
              ELSE IF stopLength # watch.stop
                THEN [watch EXCEPT !.between = TRUE]
              ELSE watch
  /\ UNCHANGED <<cipher, cres>>

----------------------------------------------------------------------------
(* Inputs of the cipher operations *)

DollarText == <<ChLowerA>> \o Delimiter \o <<(ChLowerA + 1)>>

Payloads ==
  {JStr(<<ChLowerA>>), JStr(DollarText), JStr(<<ChSpace, Quote>>), JNum(7),
   JObj(<<(ChLowerA + 7), (ChLowerA + 8)>>), JObj(DollarText), JInstance}

CipherRawKeys == {PatternBytes(LongKeyLen)}

CipherWrapArgs ==
  {[isKey |-> FALSE, ref |-> 0, given |-> TRUE, bytes |-> b] : b \in CipherRawKeys}

AesVariants == {"aes-128-cbc", "aes-128-gcm", "aes-256-cbc", "aes-256-gcm"}

Salts == {1, 2}

\* Texts a forged ciphertext decrypts to: a signature part, a separator, a
\* body and an optional second delimiter; one text padded with blanks; one
\* text that is a body alone
ForgedBodies == {Stringify(JStr(<<ChLowerA>>)), <<ChOpenBrace>>}

SignatureHex(body, key) == ToHex(hmac(ToBytes(body), Slice(key, 0, 8)))

ForgedTexts(key) ==
  {sig \o sep \o body \o tail :
     sig \in {SignatureHex(body, key) : body \in ForgedBodies} \cup {<<(ChLowerA + 25)>>},
     sep \in {Delimiter, <<ChDollar, ChColon, ChDollar>>},
     body \in ForgedBodies,
     tail \in {<<>>, Delimiter \o <<(ChLowerA + 23)>>}}
  \cup {<<ChSpace>> \o SignatureHex(Stringify(JNum(7)), key) \o <<ChSpace>> \o Delimiter
          \o <<ChSpace>> \o Stringify(JNum(7)) \o <<ChSpace>>,
        Stringify(JNum(7))}

\* The ciphertext that decrypts to text under the instance's key and mode
Forge(text) ==
  LET k == keys[cipher.key]
  IN  IF cipher.family = "AES" /\ cipher.unsafeMode
        THEN ToBytes(CryptoJsEncrypt(text, ToText(k.key), 1))
      ELSE IF cipher.family = "AES"
        THEN PrimEncrypt(AesPrimitive(env, k.algorithm), k.key,
                         generateInitializationVector(k, 0), ToBytes(text))
      ELSE PrimEncrypt("chacha20-poly1305", k.key,
                       generateInitializationVector(k, 12), ToBytes(text))

DecryptInputs ==
  IF cipher = NoCipher THEN {}
  ELSE {<<>>}
       \cup (IF cres.op = "encrypt" /\ cres.ok THEN {cres.ct} ELSE {})
       \cup {Forge(t) : t \in ForgedTexts(keys[cipher.key].key)}

----------------------------------------------------------------------------
(* Specification of one cipher instance *)

InitCipher ==
  /\ env \in {"node", "browser"}
  /\ keys = <<>>
  /\ kres = NoKRes
  /\ cipher = NoCipher
  /\ cres = NoCRes
  /\ watch = NoWatch
  /\ block = NoBlock
  /\ calls = <<>>
  /\ vector = NoVector
  /\ found = NoFound
  /\ deferred = NoDeferred
  /\ pg = NoPg

NextCipher ==
  \/ \E x \in CipherWrapArgs, a \in AesVariants :
       NewAES(x, a) /\ UNCHANGED <<env, kres, watch, block, calls, vector, found, deferred, pg>>
  \/ \E x \in CipherWrapArgs :
       NewChaCha20(x) /\ UNCHANGED <<env, kres, watch, block, calls, vector, found, deferred, pg>>
  \/ NoUseIVCipher /\ UNCHANGED <<env, kres, watch, block, calls, vector, found, deferred, pg>>
  \/ \E p \in Payloads, salt \in Salts :
       Encrypt(p, salt) /\ UNCHANGED <<env, kres, watch, block, calls, vector, found, deferred, pg>>
  \/ \E d \in DecryptInputs :
       Decrypt(d) /\ UNCHANGED <<env, kres, watch, block, calls, vector, found, deferred, pg>>

SpecCipher == InitCipher /\ [][NextCipher]_vars

----------------------------------------------------------------------------
(* Specification of the derived IV of one cipher's key *)

IVPayloads == {JNum(7)}

IVDecryptInputs ==
  {<<>>} \cup (IF cres.op = "encrypt" /\ cres.ok THEN {cres.ct} ELSE {})

InitIV == InitCipher

NextIV ==
  \/ \E x \in CipherWrapArgs, a \in AesVariants :
       NewAES(x, a) /\ UNCHANGED <<env, kres, watch, block, calls, vector, found, deferred, pg>>
  \/ \E x \in CipherWrapArgs :
       NewChaCha20(x) /\ UNCHANGED <<env, kres, watch, block, calls, vector, found, deferred, pg>>
  \/ \E p \in IVPayloads, salt \in Salts :
       Encrypt(p, salt) /\ watch' = Touch(watch) /\ UNCHANGED <<env, kres, block, calls, vector, found, deferred, pg>>
  \/ \E d \in IVDecryptInputs :
       Decrypt(d) /\ watch' = Touch(watch) /\ UNCHANGED <<env, kres, block, calls, vector, found, deferred, pg>>
  \/ \E n \in StopLengths, look \in BOOLEAN :
       CipherKeyGenerateIV(n, look) /\ UNCHANGED <<env, block, calls, vector, found, deferred, pg>>

SpecIV == InitIV /\ [][NextIV]_vars

----------------------------------------------------------------------------
(* BlockCipher operations as steps, and their specification *)

UnsupportedAlgorithm == "Unsupported algorithm"
UnsupportedCipher == "Unsupported cipher"
\* The TypeError of reading a property of null
NullPropertyError == "Cannot read properties of null"
InvalidCipher == "Invalid cipher"

\* new BlockCipher(algorithm, key, options) (core.ts:68-79): the SymmetricKey
\* of the key argument under the algorithm, then the AES or ChaCha20 instance
\* on it; the AES and ChaCha20 constructors get the key built here, which is
\* the key they would build from the same bytes and algorithm
BlockCipherNew(x, algorithm, blockSize) ==
  /\ ~block.made
  /\ ~x.isKey
  /\ \E k \in {NewSymmetricKey([given |-> x.given, bytes |-> x.bytes],
                                OptValue(Str(algorithm)))} :
       IF ~k.ok
         THEN /\ cipher = NoCipher
              /\ block' = [NoBlock EXCEPT !.op = "new", !.ok = FALSE, !.err = k.err,
                             !.algorithm = algorithm, !.keyGiven = x.given]
              /\ UNCHANGED <<keys, cipher, cres>>
       ELSE IF IncludesAes(algorithm)
         THEN /\ NewAES(x, algorithm)
              /\ block' = [NoBlock EXCEPT !.op = "new", !.ok = cres'.ok, !.err = cres'.err,
                             !.made = cres'.ok, !.blockSize = blockSize,
                             !.algorithm = algorithm, !.keyGiven = x.given]
       ELSE IF algorithm = "chacha20-poly1305"
         THEN /\ NewChaCha20(x)
              /\ block' = [NoBlock EXCEPT !.op = "new", !.ok = cres'.ok, !.err = cres'.err,
                             !.made = cres'.ok, !.blockSize = blockSize,
                             !.algorithm = algorithm, !.keyGiven = x.given]
       ELSE /\ cipher = NoCipher
            /\ block' = [NoBlock EXCEPT !.op = "new", !.ok = FALSE,
                           !.err = UnsupportedAlgorithm,
                           !.algorithm = algorithm, !.keyGiven = x.given]
            /\ UNCHANGED <<keys, cipher, cres>>

\* new BlockCipher(key, options) on a SymmetricKey instance (core.ts:80-91)
BlockCipherOfKey(ref, blockSize) ==
  /\ ~block.made
  /\ ref \in 1..Len(keys)
  /\ \E x \in {[isKey |-> TRUE, ref |-> ref, given |-> TRUE, bytes |-> <<>>]} :
       IF IncludesAes(keys[ref].algorithm)
         THEN /\ NewAES(x, keys[ref].algorithm)
              /\ block' = [NoBlock EXCEPT !.op = "newOfKey", !.ok = cres'.ok,
                             !.err = cres'.err, !.made = cres'.ok,
                             !.blockSize = blockSize,
                             !.algorithm = keys[ref].algorithm, !.keyGiven = TRUE]
       ELSE IF keys[ref].algorithm = "chacha20-poly1305"
         THEN /\ NewChaCha20(x)
              /\ block' = [NoBlock EXCEPT !.op = "newOfKey", !.ok = cres'.ok,
                             !.err = cres'.err, !.made = cres'.ok,
                             !.blockSize = blockSize,
                             !.algorithm = keys[ref].algorithm, !.keyGiven = TRUE]
       ELSE /\ cipher = NoCipher
            /\ block' = [NoBlock EXCEPT !.op = "newOfKey", !.ok = FALSE,
                           !.err = UnsupportedAlgorithm,
                           !.algorithm = keys[ref].algorithm, !.keyGiven = TRUE]
            /\ UNCHANGED <<keys, cipher, cres>>

\* The checks of a cipher argument that omit the one of encrypt
CheckCollaborator_NoEncryptCheck(collab) ==
  IF collab.t # "object" THEN Throw(UnsupportedCipher)
  ELSE IF collab.isNull THEN Throw(NullPropertyError)
  ELSE IF ~collab.hasDecrypt THEN Throw(InvalidCipher)
  ELSE Ok(collab)

\* The checks of a cipher argument (core.ts:93-103)
CheckCollaborator(collab) ==
  IF collab.t # "object" THEN Throw(UnsupportedCipher)
  ELSE IF collab.isNull THEN Throw(NullPropertyError)
  ELSE IF ~collab.hasDecrypt THEN Throw(InvalidCipher)
  ELSE IF ~collab.hasEncrypt THEN Throw(InvalidCipher)
  ELSE Ok(collab)

\* new BlockCipher(cipher, options) (core.ts:92-110); an object handed in is
\* the cipher instance of the model, whole or with a method taken away
BlockCipherOfCipher(collab, blockSize) ==
  /\ ~block.made
  /\ (collab.t = "object" /\ ~collab.isNull) => cipher # NoCipher
  /\ \E r \in {CheckCollaborator(collab)} :
       block' = [NoBlock EXCEPT !.op = "newOfCipher", !.ok = r.ok,
                   !.err = IF r.ok THEN "" ELSE r.err,
                   !.made = r.ok, !.blockSize = blockSize, !.collab = collab]
  /\ UNCHANGED <<keys, cipher, cres>>

\* blockCipher.encrypt(data)
BlockEncrypt(data, salt) ==
  /\ block.made
  /\ \E r \in {BlockDoEncryption(keys, cipher, env, data, salt, block.blockSize)} :
       block' = [NoBlock EXCEPT !.made = TRUE, !.blockSize = block.blockSize,
                   !.op = "encrypt", !.ok = r.ok, !.err = r.err,
                   !.blocks = r.blocks, !.checksum = r.checksum,
                   !.produced = r.blocks, !.sent = data, !.content = r.content,
                   !.fields = r.fields, !.frozen = r.frozen,
                   !.hmacCalled = r.hmacCalled, !.primCalled = r.primCalled]
  /\ UNCHANGED <<keys, cipher, cres>>

\* The caller changes one bit of one character of one block's data
BlockFlipBit(i, pos, bit) ==
  /\ block.made /\ ~block.flipped
  /\ i \in 1..Len(block.blocks)
  /\ pos \in 1..Len(block.blocks[i].data)
  /\ block' = [block EXCEPT !.op = "flip", !.ok = TRUE, !.err = "",
                 !.payload = JNum(0), !.flipped = TRUE,
                 !.blocks[i].data[pos] = BitXor(@, 2 ^ bit)]
  /\ UNCHANGED <<keys, cipher, cres>>

\* A decrypt that hands the blocks' data to the cipher as they come and joins
\* them afterwards
BlockDecrypt_CipherFirst ==
  /\ block.made
  /\ Len(block.blocks) > 0
  /\ \E r \in {BlockDoDecryption(keys, cipher, env,
                                 [blocks |-> block.blocks, checksum |-> block.checksum])} :
       block' = [block EXCEPT !.op = "decrypt", !.ok = r.ok, !.err = r.err,
                              !.payload = r.payload, !.cipherInvoked = TRUE]
  /\ UNCHANGED <<keys, cipher, cres>>

\* blockCipher.decrypt({ blocks, checksum }) on what the caller holds;
\* cipherInvoked tells whether the call reached this.#cipher.decrypt
BlockDecrypt ==
  /\ block.made
  /\ Len(block.blocks) > 0
  /\ \E r \in {BlockDoDecryption(keys, cipher, env,
                                 [blocks |-> block.blocks, checksum |-> block.checksum])} :
       block' = [block EXCEPT !.op = "decrypt", !.ok = r.ok, !.err = r.err,
                              !.payload = r.payload, !.cipherInvoked = r.invoked]
  /\ UNCHANGED <<keys, cipher, cres>>

BlockAlgorithms == {"aes-256-cbc", "chacha20-poly1305"}
BlockSizes == {0, 12}
BlockPayloads == {JNum(7), JInstance}
FlipBits == 0..6

InitBlock == InitCipher

NextBlock ==
  \/ \E x \in CipherWrapArgs, a \in BlockAlgorithms, n \in BlockSizes :
       BlockCipherNew(x, a, n) /\ UNCHANGED <<env, kres, watch, calls, vector, found, deferred, pg>>
  \/ \E p \in BlockPayloads :
       BlockEncrypt(p, 1) /\ UNCHANGED <<env, kres, watch, calls, vector, found, deferred, pg>>
  \/ \E i \in 1..Len(block.blocks), bit \in FlipBits :
       \E pos \in 1..Len(block.blocks[i].data) :
         BlockFlipBit(i, pos, bit) /\ UNCHANGED <<env, kres, watch, calls, vector, found, deferred, pg>>
  \/ BlockDecrypt /\ UNCHANGED <<env, kres, watch, calls, vector, found, deferred, pg>>

SpecBlock == InitBlock /\ [][NextBlock]_vars

----------------------------------------------------------------------------
(* Specification of the construction of keys, ciphers and BlockCiphers *)

ConstructKeyArgs ==
  {[given |-> FALSE, bytes |-> <<>>], [given |-> TRUE, bytes |-> PatternBytes(32)]}

ConstructAlgorithms == {"aes-256-cbc", "chacha20-poly1305", "des-ede3"}

ConstructOptions == {OptValue(Str(a)) : a \in ConstructAlgorithms}

\* A key argument of a cipher constructor: an instance, bytes, or nothing
ConstructWrapArgs ==
  {[isKey |-> TRUE, ref |-> r, given |-> TRUE, bytes |-> <<>>] : r \in 1..Len(keys)}
  \cup {[isKey |-> FALSE, ref |-> 0, given |-> a.given, bytes |-> a.bytes] :
          a \in ConstructKeyArgs}

Collaborators ==
  {[t |-> "object", isNull |-> FALSE, hasEncrypt |-> e, hasDecrypt |-> d] :
     e, d \in BOOLEAN}
  \cup {[NoCollab EXCEPT !.t = "number"],
        [NoCollab EXCEPT !.t = "object", !.isNull = TRUE],
        NoCollab}

InitConstruct == InitCipher

NextConstruct ==
  \/ \E a \in ConstructKeyArgs, o \in ConstructOptions :
       KeyNew(a, o) /\ UNCHANGED <<env, cipher, cres, watch, block, calls, vector, found, deferred, pg>>
  \/ \E x \in ConstructWrapArgs, a \in ConstructAlgorithms :
       NewAES(x, a) /\ UNCHANGED <<env, kres, watch, block, calls, vector, found, deferred, pg>>
  \/ \E x \in ConstructWrapArgs :
       NewChaCha20(x) /\ UNCHANGED <<env, kres, watch, block, calls, vector, found, deferred, pg>>
  \/ \E x \in ConstructWrapArgs, a \in ConstructAlgorithms :
       BlockCipherNew(x, a, 0) /\ UNCHANGED <<env, kres, watch, calls, vector, found, deferred, pg>>
  \/ \E r \in 1..Len(keys) :
       BlockCipherOfKey(r, 0) /\ UNCHANGED <<env, kres, watch, calls, vector, found, deferred, pg>>
  \/ \E c \in Collaborators :
       BlockCipherOfCipher(c, 0) /\ UNCHANGED <<env, kres, watch, calls, vector, found, deferred, pg>>

SpecConstruct == InitConstruct /\ [][NextConstruct]_vars

----------------------------------------------------------------------------
(* Specification of the key material alone *)

InitKey ==
  /\ env = "node"
  /\ keys = <<>>
  /\ kres = NoKRes
  /\ cipher = NoCipher
  /\ cres = NoCRes
  /\ watch = NoWatch
  /\ block = NoBlock
  /\ calls = <<>>
  /\ vector = NoVector
  /\ found = NoFound
  /\ deferred = NoDeferred
  /\ pg = NoPg

NextKey ==
  \/ \E a \in KeyArgs, o \in KeyOptions :
       KeyNew(a, o) /\ UNCHANGED <<env, cipher, cres, watch, block, calls, vector, found, deferred, pg>>
  \/ \E x \in WrapArgs, o \in KeyOptions :
       KeyWrap(x, o) /\ UNCHANGED <<env, cipher, cres, watch, block, calls, vector, found, deferred, pg>>
  \/ \E r \in 1..Len(keys), n \in StopLengths :
       KeyGenerateIV(r, n) /\ UNCHANGED <<env, cipher, cres, watch, block, calls, vector, found, deferred, pg>>

SpecKey == InitKey /\ [][NextKey]_vars

----------------------------------------------------------------------------
(* Concurrent encrypt / decrypt calls on one cipher instance *)

MaxCalls == 2

\* What the caller of one call sees when its promise settles
CallOutcome(heap, c, e, op, data, bytes, salt) ==
  IF op = "encrypt"
    THEN LET r == IF c.family = "AES" THEN AesDoEncryption(heap, c, e, data, salt)
                  ELSE ChaChaDoEncryption(heap, c, data)
         IN  [ok |-> r.ok, err |-> r.err, ct |-> r.ct, payload |-> JNum(0),
              prim |-> r.prim]
    ELSE LET r == IF c.family = "AES" THEN AesDoDecryption(heap, c, e, bytes)
                  ELSE ChaChaDoDecryption(heap, c, bytes)
         IN  [ok |-> r.ok, err |-> r.err, ct |-> <<>>, payload |-> r.payload,
              prim |-> r.prim]

NoOutcome == [ok |-> FALSE, err |-> "", ct |-> <<>>, payload |-> JNum(0),
              prim |-> "none"]

\* One call: its arguments, the mode flag it read before its first await,
\* where it stands, whether another call was in flight during it, whether the
\* instance's flag had changed by the time it settled (switched), its outcome,
\* and the outcome the same call has when nothing else runs on the instance
NoCall ==
  [op |-> "none", data |-> JNum(0), bytes |-> <<>>, salt |-> 0,
   unsafe |-> FALSE, pc |-> "settled", overlapped |-> FALSE, switched |-> FALSE,
   out |-> NoOutcome, alone |-> NoOutcome]

\* encrypt throws before its first await: the type and serialisation checks
\* come first in #DoEncryption
FailsBeforeAwait(op, data) ==
  op = "encrypt" /\ IsObjectType(data) /\ ~isPlainObject(data)

InFlight == {i \in 1..Len(calls) : calls[i].pc = "pending"}

\* A caller calls cipher.encrypt(data) or cipher.decrypt(bytes): the code up to
\* the first await runs, which reads #unsafeMode and the key reference
CallStart(op, data, bytes, salt) ==
  /\ cipher # NoCipher
  /\ Len(calls) < MaxCalls
  /\ \E a \in {CallOutcome(keys, cipher, env, op, data, bytes, salt)} :
       calls' =
         Append([i \in 1..Len(calls) |->
                   IF i \in InFlight THEN [calls[i] EXCEPT !.overlapped = TRUE]
                   ELSE calls[i]],
                [NoCall EXCEPT !.op = op, !.data = data, !.bytes = bytes,
                   !.salt = salt, !.unsafe = cipher.unsafeMode,
                   !.pc = IF FailsBeforeAwait(op, data) THEN "settled" ELSE "pending",
                   !.overlapped = InFlight # {},
                   !.out = IF FailsBeforeAwait(op, data) THEN a ELSE NoOutcome,
                   !.alone = a])
  /\ UNCHANGED <<keys, cipher, cres>>

\* The awaited steps of call i (hmac, the primitive, JSON.parse) run with the
\* instance's current mode flag instead of the one the call read at its start
CallResume_LateMode(i) ==
  /\ i \in InFlight
  /\ calls' = [calls EXCEPT ![i].pc = "settled",
                 ![i].switched = (cipher.unsafeMode # calls[i].unsafe),
                 ![i].out = CallOutcome(keys, cipher, env, calls[i].op,
                              calls[i].data, calls[i].bytes, calls[i].salt)]
  /\ UNCHANGED <<keys, cipher, cres>>

\* The awaited steps of call i run and its promise settles: they work on the
\* call's own arguments and locals and on the key bytes of the instance
CallResume(i) ==
  /\ i \in InFlight
  /\ calls' = [calls EXCEPT ![i].pc = "settled",
                 ![i].switched = (cipher.unsafeMode # calls[i].unsafe),
                 ![i].out = CallOutcome(keys,
                              [cipher EXCEPT !.unsafeMode = calls[i].unsafe],
                              env, calls[i].op,
                              calls[i].data, calls[i].bytes, calls[i].salt)]
  /\ UNCHANGED <<keys, cipher, cres>>

ConcurrentPayloads == {JNum(7), JInstance}

\* Ciphertexts a caller can hold: nothing, and what the instance produces for 7
ConcurrentCiphertexts ==
  IF cipher = NoCipher THEN {}
  ELSE {<<>>, CallOutcome(keys, cipher, env, "encrypt", JNum(7), <<>>, 1).ct}

InitConcurrent == InitCipher

NextConcurrent ==
  \/ \E x \in CipherWrapArgs :
       /\ cipher = NoCipher
       /\ NewAES(x, "aes-256-cbc")
       /\ UNCHANGED <<env, kres, watch, block, calls, vector, found, deferred, pg>>
  \/ \E x \in CipherWrapArgs :
       /\ cipher = NoCipher
       /\ NewChaCha20(x)
       /\ UNCHANGED <<env, kres, watch, block, calls, vector, found, deferred, pg>>
  \/ NoUseIVCipher /\ UNCHANGED <<env, kres, watch, block, calls, vector, found, deferred, pg>>
  \/ \E p \in ConcurrentPayloads :
       CallStart("encrypt", p, <<>>, 1) /\ UNCHANGED <<env, kres, watch, block, vector, found, deferred, pg>>
  \/ \E d \in ConcurrentCiphertexts :
       CallStart("decrypt", JNum(0), d, 1) /\ UNCHANGED <<env, kres, watch, block, vector, found, deferred, pg>>
  \/ \E i \in 1..Len(calls) :
       CallResume(i) /\ UNCHANGED <<env, kres, watch, block, vector, found, deferred, pg>>

SpecConcurrent == InitConcurrent /\ [][NextConcurrent]_vars

----------------------------------------------------------------------------
(* Specification of encrypt calls on payloads that cannot be serialised *)

SerializePayloads == {JNum(7), JObj(<<ChLowerA>>), JInstance, JBigInt}

SerializeAlgorithms == {"aes-256-cbc", "aes-128-gcm", "chacha20-poly1305"}

InitSerialize == InitCipher

NextSerialize ==
  \/ \E x \in CipherWrapArgs, a \in SerializeAlgorithms, n \in BlockSizes :
       BlockCipherNew(x, a, n) /\ UNCHANGED <<env, kres, watch, calls, vector, found, deferred, pg>>
  \/ NoUseIVCipher /\ UNCHANGED <<env, kres, watch, block, calls, vector, found, deferred, pg>>
  \/ \E p \in SerializePayloads :
       Encrypt(p, 1) /\ UNCHANGED <<env, kres, watch, block, calls, vector, found, deferred, pg>>
  \/ \E p \in SerializePayloads :
       BlockEncrypt(p, 1) /\ UNCHANGED <<env, kres, watch, calls, vector, found, deferred, pg>>

SpecSerialize == InitSerialize /\ [][NextSerialize]_vars

----------------------------------------------------------------------------
(* Specification of the chunks of a BlockResult and their order *)

\* The caller exchanges two blocks of the set it holds
BlockSwap(i, j) ==
  /\ block.made
  /\ i \in 1..Len(block.blocks) /\ j \in 1..Len(block.blocks) /\ i < j
  /\ block' = [block EXCEPT !.op = "shuffle", !.ok = TRUE, !.err = "",
                 !.payload = JNum(0),
                 !.blocks[i] = block.blocks[j], !.blocks[j] = block.blocks[i]]
  /\ UNCHANGED <<keys, cipher, cres>>

ChunkSizes == {0, 12, 16}

ChunkPayloads == {JNum(7), JStr(<<ChLowerA>>)}

InitChunks == InitCipher

NextChunks ==
  \/ \E x \in CipherWrapArgs, a \in BlockAlgorithms, n \in ChunkSizes :
       BlockCipherNew(x, a, n) /\ UNCHANGED <<env, kres, watch, calls, vector, found, deferred, pg>>
  \/ \E p \in ChunkPayloads :
       BlockEncrypt(p, 1) /\ UNCHANGED <<env, kres, watch, calls, vector, found, deferred, pg>>
  \/ \E i \in 1..Len(block.blocks), j \in 1..Len(block.blocks) :
       BlockSwap(i, j) /\ UNCHANGED <<env, kres, watch, calls, vector, found, deferred, pg>>
  \/ BlockDecrypt /\ UNCHANGED <<env, kres, watch, calls, vector, found, deferred, pg>>

SpecChunks == InitChunks /\ [][NextChunks]_vars

----------------------------------------------------------------------------
(* Specification of the slicing done by BlockCipher.encrypt *)

LongTextLen == 120

\* A text whose encrypted, encoded form is longer than the default block size
LongText == [i \in 1..LongTextLen |-> ChLowerA]

SlicePayloads == {JNum(7), JStr(<<ChLowerA, ChLowerA, ChLowerA>>), JStr(LongText)}

SliceSizes == {0, 24, 48, 100}

InitSlice == InitCipher

NextSlice ==
  \/ \E x \in CipherWrapArgs, a \in AesVariants \cup {"chacha20-poly1305"},
        n \in SliceSizes :
       BlockCipherNew(x, a, n) /\ UNCHANGED <<env, kres, watch, calls, vector, found, deferred, pg>>
  \/ \E p \in SlicePayloads :
       BlockEncrypt(p, 1) /\ UNCHANGED <<env, kres, watch, calls, vector, found, deferred, pg>>

SpecSlice == InitSlice /\ [][NextSlice]_vars

----------------------------------------------------------------------------
(* Specification of block sets whose indices the caller changed *)

\* The caller gives block i the index v
BlockSetIndex(i, v) ==
  /\ block.made
  /\ i \in 1..Len(block.blocks)
  /\ block.blocks[i].index # v
  /\ block' = [block EXCEPT !.op = "reindex", !.ok = TRUE, !.err = "",
                 !.payload = JNum(0), !.cipherInvoked = FALSE,
                 !.blocks[i].index = v]
  /\ UNCHANGED <<keys, cipher, cres>>

\* The caller leaves block i out
BlockDrop(i) ==
  /\ block.made
  /\ i \in 1..Len(block.blocks)
  /\ Len(block.blocks) > 1
  /\ block' = [block EXCEPT !.op = "drop", !.ok = TRUE, !.err = "",
                 !.payload = JNum(0), !.cipherInvoked = FALSE,
                 !.blocks = SubSeq(block.blocks, 1, i - 1)
                            \o SubSeq(block.blocks, i + 1, Len(block.blocks))]
  /\ UNCHANGED <<keys, cipher, cres>>

InitMalformed == InitCipher

NextMalformed ==
  \/ \E x \in CipherWrapArgs, a \in BlockAlgorithms :
       BlockCipherNew(x, a, 12) /\ UNCHANGED <<env, kres, watch, calls, vector, found, deferred, pg>>
  \/ BlockEncrypt(JNum(7), 1) /\ UNCHANGED <<env, kres, watch, calls, vector, found, deferred, pg>>
  \/ \E i \in 1..Len(block.blocks), v \in 0..Len(block.blocks) :
       BlockSetIndex(i, v) /\ UNCHANGED <<env, kres, watch, calls, vector, found, deferred, pg>>
  \/ \E i \in 1..Len(block.blocks) :
       BlockDrop(i) /\ UNCHANGED <<env, kres, watch, calls, vector, found, deferred, pg>>
  \/ BlockDecrypt /\ UNCHANGED <<env, kres, watch, calls, vector, found, deferred, pg>>

SpecMalformed == InitMalformed /\ [][NextMalformed]_vars

----------------------------------------------------------------------------
(* MultidimensionalVector (src/embedding/vectors/multidimensional.ts) *)

\* The variables of the symmetric ciphers, which the other components leave
\* alone
cipherVars == <<env, keys, kres, cipher, cres, watch, block, calls>>

\* Nothing of the symmetric ciphers has been constructed
IdleCipher ==
  /\ env = "node"
  /\ keys = <<>>
  /\ kres = NoKRes
  /\ cipher = NoCipher
  /\ cres = NoCRes
  /\ watch = NoWatch
  /\ block = NoBlock
  /\ calls = <<>>

\* Coordinates are kept within -MaxCoord..MaxCoord
MaxCoord == 2

Coords == (0 - MaxCoord)..MaxCoord

InRange(values) == \A i \in 1..Len(values) : values[i] \in Coords

Abs(n) == IF n < 0 THEN 0 - n ELSE n

\* magnitude(): the root of the sum of squares; -1 stands for a root that is
\* not an integer
SumOfSquares(values) ==
  IF Len(values) = 0 THEN 0
  ELSE IF Len(values) = 2 THEN (values[1] * values[1]) + (values[2] * values[2])
  ELSE (values[1] * values[1]) + (values[2] * values[2]) + (values[3] * values[3])

magnitude(values) ==
  LET q == SumOfSquares(values)
  IN  IF \E r \in 0..(2 * MaxCoord) : r * r = q
        THEN CHOOSE r \in 0..(2 * MaxCoord) : r * r = q
        ELSE -1

\* values.map(value => value / magnitude) is followed where every quotient is
\* an integer
Divisible(values, m) == m > 0 /\ \A i \in 1..Len(values) : values[i] % m = 0

Quotient(n, m) == IF n < 0 THEN 0 - ((0 - n) \div m) ELSE n \div m

VectorOutcome(v, op, ok, err) ==
  [v EXCEPT !.op = op, !.ok = ok, !.err = err, !.wasFrozen = v.isFrozen]

\* new MultidimensionalVector(...values)
VectorNew(values) ==
  /\ ~vector.made
  /\ vector' = [NoVector EXCEPT !.made = TRUE, !.values = values,
                                !.dimensions = Len(values), !.op = "new"]

\* vector.normalize()
VectorNormalize ==
  /\ vector.made
  /\ \E m \in {magnitude(vector.values)} :
       IF vector.isFrozen
         THEN vector' = VectorOutcome(vector, "normalize", FALSE, "Cannot normalize a frozen vector")
       ELSE IF m = 0
         THEN vector' = VectorOutcome(vector, "normalize", FALSE, "division by zero")
       ELSE /\ Divisible(vector.values, m)
            /\ vector' = [VectorOutcome(vector, "normalize", TRUE, "") EXCEPT
                            !.values = [i \in 1..Len(vector.values) |->
                                          Quotient(vector.values[i], m)]]

\* vector.safeNormalize()
VectorSafeNormalize ==
  /\ vector.made
  /\ \E m \in {magnitude(vector.values)} :
       IF vector.isFrozen \/ m = 0
         THEN vector' = VectorOutcome(vector, "safeNormalize", TRUE, "")
       ELSE /\ Divisible(vector.values, m)
            /\ vector' = [VectorOutcome(vector, "safeNormalize", TRUE, "") EXCEPT
                            !.values = [i \in 1..Len(vector.values) |->
                                          Quotient(vector.values[i], m)]]

\* vector.add(vec)
VectorAdd(vec) ==
  /\ vector.made
  /\ IF vector.isFrozen
       THEN vector' = VectorOutcome(vector, "add", FALSE, "Cannot add a vector to a frozen vector")
     ELSE IF vector.dimensions # Len(vec)
       THEN vector' = VectorOutcome(vector, "add", FALSE, "dimension mismatch")
     ELSE \E r \in {[i \in 1..Len(vector.values) |-> vector.values[i] + vec[i]]} :
            /\ InRange(r)
            /\ vector' = [VectorOutcome(vector, "add", TRUE, "") EXCEPT !.values = r]

\* vector.subtract(vec)
VectorSubtract(vec) ==
  /\ vector.made
  /\ IF vector.isFrozen
       THEN vector' = VectorOutcome(vector, "subtract", FALSE,
                                    "Cannot subtract a vector from a frozen vector")
     ELSE IF vector.dimensions # Len(vec)
       THEN vector' = VectorOutcome(vector, "subtract", FALSE, "dimension mismatch")
     ELSE \E r \in {[i \in 1..Len(vector.values) |-> vector.values[i] - vec[i]]} :
            /\ InRange(r)
            /\ vector' = [VectorOutcome(vector, "subtract", TRUE, "") EXCEPT !.values = r]

\* vector.cross(vec)
VectorCross(vec) ==
  /\ vector.made
  /\ IF vector.dimensions # Len(vec) \/ vector.dimensions # 3
       THEN vector' = VectorOutcome(vector, "cross", FALSE, "dimension mismatch")
     ELSE \E r \in {<<(vector.values[2] * vec[3]) - (vector.values[3] * vec[2]),
                      (vector.values[3] * vec[1]) - (vector.values[1] * vec[3]),
                      (vector.values[1] * vec[2]) - (vector.values[2] * vec[1])>>} :
            /\ InRange(r)
            /\ vector' = [VectorOutcome(vector, "cross", TRUE, "") EXCEPT !.values = r]

\* vector.scale(scalar)
VectorScale(scalar) ==
  /\ vector.made
  /\ IF vector.isFrozen
       THEN vector' = VectorOutcome(vector, "scale", FALSE, "Cannot scale a frozen vector")
     ELSE \E r \in {[i \in 1..Len(vector.values) |-> vector.values[i] * scalar]} :
            /\ InRange(r)
            /\ vector' = [VectorOutcome(vector, "scale", TRUE, "") EXCEPT !.values = r]

\* vector.freeze()
VectorFreeze ==
  /\ vector.made
  /\ IF vector.isFrozen
       THEN vector' = VectorOutcome(vector, "freeze", FALSE, "already frozen")
       ELSE vector' = [VectorOutcome(vector, "freeze", TRUE, "") EXCEPT !.isFrozen = TRUE]

NewVectors == {<<1, 0>>, <<0, 2>>, <<1, 0, 0>>, <<0, 2, 0>>, <<0, 0, 0>>}
OtherVectors == {<<0, 1>>, <<0, 1, 0>>, <<0, 0, 1>>}
Scalars == {-1, 0, 2}

InitVector ==
  /\ IdleCipher
  /\ vector = NoVector
  /\ found = NoFound
  /\ deferred = NoDeferred
  /\ pg = NoPg

NextVector ==
  \/ \E v \in NewVectors :
       VectorNew(v) /\ UNCHANGED <<cipherVars, found, deferred, pg>>
  \/ VectorNormalize /\ UNCHANGED <<cipherVars, found, deferred, pg>>
  \/ VectorSafeNormalize /\ UNCHANGED <<cipherVars, found, deferred, pg>>
  \/ \E v \in OtherVectors :
       VectorAdd(v) /\ UNCHANGED <<cipherVars, found, deferred, pg>>
  \/ \E v \in OtherVectors :
       VectorSubtract(v) /\ UNCHANGED <<cipherVars, found, deferred, pg>>
  \/ \E v \in OtherVectors :
       VectorCross(v) /\ UNCHANGED <<cipherVars, found, deferred, pg>>
  \/ \E k \in Scalars :
       VectorScale(k) /\ UNCHANGED <<cipherVars, found, deferred, pg>>
  \/ VectorFreeze /\ UNCHANGED <<cipherVars, found, deferred, pg>>

SpecVector == InitVector /\ [][NextVector]_vars

----------------------------------------------------------------------------
(* binaryIndexOf (buffer.ts) and base32Decode (core.ts) *)

Max(a, b) == IF a > b THEN a ELSE b

\* Uint8Array.prototype.indexOf(byte): first position of the byte, from 0
RECURSIVE ByteIndexFrom(_, _, _)
ByteIndexFrom(haystack, byte, i) ==
  IF i >= Len(haystack) THEN -1
  ELSE IF haystack[i + 1] = byte THEN i
  ELSE ByteIndexFrom(haystack, byte, i + 1)

\* table.fill(needle.length); for each i: table[needle[i]] = needle.length - i - 1
\* (a later position of the same byte overwrites an earlier one)
SkipTable(needle) ==
  [b \in 0..255 |->
     IF \E i \in 1..Len(needle) : needle[i] = b
       THEN Len(needle) - (CHOOSE i \in 1..Len(needle) :
                             /\ needle[i] = b
                             /\ \A k \in (i + 1)..Len(needle) : needle[k] # b)
       ELSE Len(needle)]

\* The while loop of binaryIndexOf; needle[j] is undefined from needle.length
\* on and equals no byte
RECURSIVE HorspoolLoop(_, _, _, _, _)
HorspoolLoop(haystack, needle, table, i, j) ==
  IF i >= Len(haystack) THEN -1
  ELSE IF j < Len(needle) /\ haystack[i + 1] = needle[j + 1]
    THEN IF j = 0 THEN i
         ELSE HorspoolLoop(haystack, needle, table, i - 1, j - 1)
  ELSE HorspoolLoop(haystack, needle, table,
                    i + Max(Len(needle) - j, table[haystack[i + 1]]),
                    Len(needle) - 1)

\* binaryIndexOf(haystack, needle, offset)
binaryIndexOf(haystack, needle, offset) ==
  IF Len(needle) = 0 THEN 0
  ELSE IF Len(needle) = 1 THEN ByteIndexFrom(haystack, needle[1], 0)
  ELSE IF Len(needle) > Len(haystack) - offset THEN -1
  ELSE HorspoolLoop(haystack, needle, SkipTable(needle),
                    (offset + Len(needle)) - 1, (offset + Len(needle)) - 1)

\* xbuffer.indexOf(subarray, offset)
IndexOfCall(haystack, needle, offset) ==
  found' = [NoFound EXCEPT !.op = "indexOf", !.hay = haystack, !.needle = needle,
                           !.offset = offset,
                           !.index = binaryIndexOf(haystack, needle, offset)]

\* lookup[encoded.charCodeAt(i)]: the position in 'A'..'Z', '2'..'7', 0 for
\* every other character
Base32Lookup(c) ==
  IF c >= ChUpperA /\ c < ChUpperA + 26 THEN c - ChUpperA
  ELSE IF c >= ChZero + 2 /\ c <= ChZero + 7 THEN (c - (ChZero + 2)) + 26
  ELSE 0

\* padding: 2 for a text ending in "==", 1 for one ending in "=", else 0
Base32Padding(encoded) ==
  IF Len(encoded) >= 1 /\ encoded[Len(encoded)] = ChEquals
    THEN IF Len(encoded) >= 2 /\ encoded[Len(encoded) - 1] = ChEquals THEN 2 ELSE 1
    ELSE 0

\* The for loop of base32Decode from character i on (0-based); buffer holds
\* the bytes written so far, a write past byteCount is dropped. bits stays
\* below 13, so of the 32-bit value only the low 13 bits reach a byte and
\* only they are kept
RECURSIVE Base32Loop(_, _, _, _, _, _)
Base32Loop(encoded, byteCount, i, bits, value, buffer) ==
  IF i >= Len(encoded) THEN Ok(buffer)
  ELSE
    LET charValue == Base32Lookup(encoded[i + 1])
        v == ((value * 32) + charValue) % (2 ^ 13)
        b == bits + 5
    IN  IF charValue = 0 THEN Throw("Invalid base32 character")
        ELSE IF b >= 8
          THEN Base32Loop(encoded, byteCount, i + 1, b - 8, v,
                          IF Len(buffer) < byteCount
                            THEN Append(buffer, (v \div (2 ^ (b - 8))) % 256)
                            ELSE buffer)
          ELSE Base32Loop(encoded, byteCount, i + 1, b, v, buffer)

\* base32Decode(encoded); new Uint8Array(n) takes the integer part of n and
\* throws a RangeError for a negative one
base32Decode(encoded) ==
  LET byteCount == ((Len(encoded) * 5) \div 8) - Base32Padding(encoded)
  IN  IF ((Len(encoded) * 5) - (8 * Base32Padding(encoded))) <= -8
        THEN Throw("RangeError")
      ELSE LET r == Base32Loop(encoded, Max(byteCount, 0), 0, 0, 0, <<>>)
           IN  IF ~r.ok THEN r
               ELSE Ok(r.v \o [k \in 1..(Max(byteCount, 0) - Len(r.v)) |-> 0])

Base32Call(encoded) ==
  \E r \in {base32Decode(encoded)} :
    found' = [NoFound EXCEPT !.op = "base32Decode", !.hay = encoded,
                             !.ok = r.ok, !.err = IF r.ok THEN "" ELSE r.err,
                             !.bytes = IF r.ok THEN r.v ELSE <<>>]

MaxHaystack == 4
MaxNeedle == 3
MaxEncoded == 3

SeqsUpTo(S, n) == UNION {[1..k -> S] : k \in 0..n}

HaystackBytes == {1, 2}

Base32Inputs == {ChUpperA, ChUpperA + 1, ChZero + 7, ChZero + 1, ChEquals}

InitBytes == InitVector

\* One call per behaviour: the two functions keep nothing between calls (the
\* shared skip table is filled anew by every call)
NextBytes ==
  \/ /\ found.op = "none"
     /\ \E h \in SeqsUpTo(HaystackBytes, MaxHaystack),
           n \in SeqsUpTo(HaystackBytes, MaxNeedle) :
          \E offset \in 0..Len(h) : IndexOfCall(h, n, offset)
     /\ UNCHANGED <<cipherVars, vector, deferred, pg>>
  \/ /\ found.op = "none"
     /\ \E t \in SeqsUpTo(Base32Inputs, MaxEncoded) : Base32Call(t)
     /\ UNCHANGED <<cipherVars, vector, deferred, pg>>

SpecBytes == InitBytes /\ [][NextBytes]_vars

----------------------------------------------------------------------------
(* Deferred (src/resources/async.ts) *)

\* resolve / reject / cancel calls made on one Deferred
MaxSettles == 3

DeferredValues == 1..3

\* Rejection reasons a caller passes; cancel() rejects with a CanceledError
DeferredReasons == {"TypeError", "RangeError", "Error"}
CanceledError == "CanceledError"

\* The getters isRejected, isResolved and value
isRejected(d) == d._outcome.outcome = "Rejected"
isResolved(d) == d._outcome.outcome = "Resolved"
DeferredValue(d) ==
  IF d._outcome.outcome = "Resolved" THEN [defined |-> TRUE, v |-> d._outcome.value]
  ELSE [defined |-> FALSE, v |-> 0]

\* The resolve and reject functions of the promise's executor: they settle a
\* pending promise and do nothing to a settled one
PromiseResolve(p, value) ==
  IF p.state = "pending" THEN [state |-> "fulfilled", value |-> value, reason |-> ""] ELSE p
PromiseReject(p, reason) ==
  IF p.state = "pending" THEN [state |-> "rejected", value |-> 0, reason |-> reason] ELSE p

\* new Deferred()
DeferredNew ==
  /\ ~deferred.made
  /\ deferred' = [NoDeferred EXCEPT !.made = TRUE]

\* deferred.resolve(value): _onfulfilled(value), then the outcome is stored
DeferredResolve(value) ==
  /\ deferred.made /\ deferred.calls < MaxSettles
  /\ deferred' = [deferred EXCEPT
                    !.promise = PromiseResolve(deferred.promise, value),
                    !._outcome = [outcome |-> "Resolved", value |-> value, reason |-> ""],
                    !.calls = @ + 1]

\* deferred.reject(reason): _onrejected(reason), then the outcome is stored
DeferredReject(reason) ==
  /\ deferred.made /\ deferred.calls < MaxSettles
  /\ deferred' = [deferred EXCEPT
                    !.promise = PromiseReject(deferred.promise, reason),
                    !._outcome = [outcome |-> "Rejected", value |-> 0, reason |-> reason],
                    !.calls = @ + 1]

\* deferred.cancel()
DeferredCancel == DeferredReject(CanceledError)

InitDeferred == InitVector

NextDeferred ==
  \/ DeferredNew /\ UNCHANGED <<cipherVars, vector, found, pg>>
  \/ \E v \in DeferredValues :
       DeferredResolve(v) /\ UNCHANGED <<cipherVars, vector, found, pg>>
  \/ \E r \in DeferredReasons :
       DeferredReject(r) /\ UNCHANGED <<cipherVars, vector, found, pg>>
  \/ DeferredCancel /\ UNCHANGED <<cipherVars, vector, found, pg>>

SpecDeferred == InitDeferred /\ [][NextDeferred]_vars

----------------------------------------------------------------------------
(* PostgresEmbeddingExtension: the connections of concurrent operations *)

MaxInstances == 2
MaxOps == 2

PgKinds == {"insert", "update", "lookup"}

\* One operation: its instance, where it stands, the Database it got from
\* #connect (0 before), the isOnline() answer it is waiting for, and whether
\* its query ran on a closed Database
NoOp ==
  [inst |-> 0, kind |-> "none", pc |-> "connect", conn |-> 0, online |-> FALSE,
   onClosed |-> FALSE]

\* new PostgresEmbeddingExtension(options)
PgNew(forceProduction) ==
  /\ Len(pg.insts) < MaxInstances
  /\ pg' = [pg EXCEPT !.insts = Append(@, [forceProduction |-> forceProduction, db |-> 0])]

\* insert / update / lookup is called: the code before #connect
PgStart(inst, kind) ==
  /\ inst \in 1..Len(pg.insts)
  /\ Len(pg.ops) < MaxOps
  /\ pg' = [pg EXCEPT !.ops = Append(@, [NoOp EXCEPT !.inst = inst, !.kind = kind])]

\* The branch of #connect an instance takes (part_006:339-340)
UsesOwn(production, inst) == production \/ pg.insts[inst].forceProduction

\* The cached Database #connect looks at: this.#db or the module's database
Cached(g, own, inst) == IF own THEN g.insts[inst].db ELSE g.database

\* this.#db = new Database(..) or database = new Database(..)
StoreNew(g, own, inst) ==
  LET n == Len(g.conns) + 1
      h == [g EXCEPT !.conns = Append(@, [closed |-> FALSE])]
  IN  IF own THEN [h EXCEPT !.insts[inst].db = n] ELSE [h EXCEPT !.database = n]

\* The caller of #connect has its Database: lookup issues its query at once
\* (part_006:262-265), insert and update first await the embedding vector
\* (part_006:137-142, 207-212)
Obtained(g, i, n) ==
  IF g.ops[i].kind = "lookup"
    THEN [g EXCEPT !.ops[i].conn = n, !.ops[i].pc = "queried",
                   !.ops[i].onClosed = g.conns[n].closed]
    ELSE [g EXCEPT !.ops[i].conn = n, !.ops[i].pc = "holding"]

\* #connect up to its first await: without a cached Database it makes one and
\* returns it, otherwise it asks the cached one isOnline()
PgConnect(i) ==
  /\ i \in 1..Len(pg.ops) /\ pg.ops[i].pc = "connect"
  /\ LET inst == pg.ops[i].inst
         g == [pg EXCEPT !.production = @ \/ pg.insts[inst].forceProduction]
         own == UsesOwn(g.production, inst)
     IN  pg' = IF Cached(g, own, inst) = 0
                 THEN LET h == StoreNew(g, own, inst)
                      IN  Obtained(h, i, Cached(h, own, inst))
                 ELSE [g EXCEPT !.ops[i].pc = "isOnline",
                                !.ops[i].online = ~g.conns[Cached(g, own, inst)].closed]

\* #connect after isOnline() answered: a new Database when the answer was no,
\* and the Database now in the cache is returned
PgConnectResume(i) ==
  /\ i \in 1..Len(pg.ops) /\ pg.ops[i].pc = "isOnline"
  /\ LET inst == pg.ops[i].inst
         own == UsesOwn(pg.production, inst)
         h == IF pg.ops[i].online THEN pg ELSE StoreNew(pg, own, inst)
     IN  pg' = Obtained(h, i, Cached(h, own, inst))

\* database.query(..) of an insert or update, once the embedding is there
PgQuery(i) ==
  /\ i \in 1..Len(pg.ops) /\ pg.ops[i].pc = "holding"
  /\ pg' = [pg EXCEPT !.ops[i].pc = "queried",
                      !.ops[i].onClosed = pg.conns[pg.ops[i].conn].closed]

\* finally { await database.close() }
PgClose(i) ==
  /\ i \in 1..Len(pg.ops) /\ pg.ops[i].pc = "queried"
  /\ pg' = [pg EXCEPT !.ops[i].pc = "done",
                      !.conns[pg.ops[i].conn].closed = TRUE]

InitPg ==
  /\ IdleCipher
  /\ vector = NoVector
  /\ found = NoFound
  /\ deferred = NoDeferred
  /\ pg \in {[NoPg EXCEPT !.production = b] : b \in BOOLEAN}

NextPg ==
  \/ \E f \in BOOLEAN :
       PgNew(f) /\ UNCHANGED <<cipherVars, vector, found, deferred>>
  \/ \E inst \in 1..MaxInstances, k \in PgKinds :
       PgStart(inst, k) /\ UNCHANGED <<cipherVars, vector, found, deferred>>
  \/ \E i \in 1..MaxOps :
       PgConnect(i) /\ UNCHANGED <<cipherVars, vector, found, deferred>>
  \/ \E i \in 1..MaxOps :
       PgConnectResume(i) /\ UNCHANGED <<cipherVars, vector, found, deferred>>
  \/ \E i \in 1..MaxOps :
       PgQuery(i) /\ UNCHANGED <<cipherVars, vector, found, deferred>>
  \/ \E i \in 1..MaxOps :
       PgClose(i) /\ UNCHANGED <<cipherVars, vector, found, deferred>>

SpecPg == InitPg /\ [][NextPg]_vars

----------------------------------------------------------------------------
(* Properties of SymmetricKey *)

RequiredKeyLength(algorithm) ==
  IF algorithm \in {"aes-128-cbc", "aes-128-gcm"} THEN 16 ELSE 32

\* C6: every constructed SymmetricKey of a known algorithm has the required
\* length of its algorithm (16 for aes-128-*, 32 otherwise); when the raw
\* bytes are longer than that, key is their first `length` bytes and hmacKey
\* the rest; otherwise key is the raw bytes in full and hmacKey is absent.
C6_KeyMaterialInvariant ==
  \A r \in 1..Len(keys) :
    LET k == keys[r]
        raw == k.original
    IN  /\ k.algorithm \in SymmetricAlgorithm
        /\ k.length = RequiredKeyLength(k.algorithm)
        /\ IF Len(raw) > k.length
             THEN /\ k.key = SubSeq(raw, 1, k.length)
                  /\ k.hasHmacKey
                  /\ k.hmacKey = SubSeq(raw, k.length + 1, Len(raw))
             ELSE /\ k.key = raw
                  /\ ~k.hasHmacKey

C6_Witness ==
  \E r \in 1..Len(keys) :
    /\ keys[r].algorithm = "aes-256-gcm"
    /\ Len(keys[r].original) = LongKeyLen
    /\ Len(keys[r].key) = 32
    /\ Len(keys[r].hmacKey) = LongKeyLen - 32

\* C7: generateInitializationVector() without a stop length returns length/2
\* bytes, byte i being original[i] XOR original[i + length/2] (a byte past
\* the end of a short raw key reads as 0, as JavaScript's ^ does).
C7_FoldInHalf ==
  (kres.op = "iv" /\ kres.stop = 0) =>
    LET k == keys[kres.ref]
        half == k.length \div 2
    IN  /\ Len(kres.out) = half
        /\ \A i \in 0..(half - 1) :
             kres.out[i + 1] = BitXor(Rd(k.original, i), Rd(k.original, i + half))

C7_Witness ==
  /\ kres.op = "iv" /\ kres.stop = 0
  /\ keys[kres.ref].algorithm = "aes-256-cbc"
  /\ Len(keys[kres.ref].original) = 32
  /\ Len(kres.out) = 16
  /\ kres.out[1] = 208

\* C8 (as claimed): generateInitializationVector(stopLength) returns exactly
\* stopLength bytes for every stopLength >= 1: the first stopLength folded
\* bytes when stopLength is below length/2, and otherwise the folded bytes
\* followed by bytes folded[i mod (length/2)] OR 0x80.
C8_ExactTargetLength ==
  (kres.op = "iv" /\ kres.stop >= 1) =>
    LET k == keys[kres.ref]
        half == k.length \div 2
        folded == [i \in 1..half |->
                     BitXor(Rd(k.original, i - 1), Rd(k.original, (i - 1) + half))]
    IN  /\ Len(kres.out) = kres.stop
        /\ \A i \in 0..(kres.stop - 1) :
             kres.out[i + 1] =
               IF i < half THEN folded[i + 1]
               ELSE BitOr(folded[(i % half) + 1], 128)

\* C10: wrap of a value that already is a SymmetricKey returns that same
\* instance and leaves every instance as it was, whatever options are passed.
C10_WrapIdempotent ==
  [][(kres'.op = "wrap" /\ kres'.argIsKey) =>
       (kres'.ok /\ kres'.ref = kres'.argRef /\ keys' = keys)]_vars

C10_Witness ==
  /\ kres.op = "wrap" /\ kres.argIsKey /\ kres.ok
  /\ kres.ref = kres.argRef
  /\ keys[kres.ref].algorithm = "aes-256-cbc"
  /\ kres.option = OptValue(Str("chacha20-poly1305"))

----------------------------------------------------------------------------
(* Properties of AES and ChaCha20 *)

\* The two parts of a framed text: everything before the first occurrence of
\* the delimiter, and everything after it
SignatureHexOf(str) == SubSeq(str, 1, IndexOf(str, Delimiter))
PayloadTextOf(str) ==
  SubSeq(str, IndexOf(str, Delimiter) + Len(Delimiter) + 1, Len(str))

\* The key the instance signs with: the first 8 bytes of its encryption key
MacKeyOfCipher == Slice(keys[cipher.key].key, 0, 8)

\* C1: a decrypt of the ciphertext that the preceding encrypt of the same
\* instance returned succeeds, returns a payload equal to the one encrypted,
\* and returns the signature that is embedded in the framed plaintext
C1_RoundTrip ==
  (cres.op = "decrypt" /\ cres.roundTrip) =>
    /\ cres.ok
    /\ cres.payload = cres.sent
    /\ ToHex(cres.signature) = SignatureHexOf(cres.str)

\* C3: a decrypt whose plaintext holds the delimiter and whose HMAC over the
\* payload text (the text after the first delimiter), keyed with the first 8
\* key bytes, differs from the embedded signature text fails with the
\* tampered-data error, and has not parsed the payload
C3_TamperRejected ==
  (/\ cres.op = "decrypt"
   /\ cres.hasStr
   /\ IndexOf(cres.str, Delimiter) >= 0
   /\ ToHex(hmac(ToBytes(PayloadTextOf(cres.str)), MacKeyOfCipher))
        # SignatureHexOf(cres.str)) =>
    /\ ~cres.ok
    /\ cres.err = TamperedMessage
    /\ ~cres.parsed

\* C4: a decrypt whose plaintext does not hold the delimiter fails with the
\* malformed-payload error, which is not the tampered-data error
C4_MalformedDistinct ==
  (cres.op = "decrypt" /\ cres.hasStr /\ IndexOf(cres.str, Delimiter) < 0) =>
    /\ ~cres.ok
    /\ cres.err = MalformedMessage
    /\ cres.err # TamperedMessage

\* C5: the two parts a decrypt takes from the framed plaintext are the text
\* before the first delimiter and the whole text after it, and the signature
\* a successful decrypt returns is the HMAC over exactly that payload text
C5_SplitAtFirst ==
  (cres.op = "decrypt" /\ cres.hasSplit) =>
    /\ cres.splitSignature = SignatureHexOf(cres.str)
    /\ cres.splitPayload = PayloadTextOf(cres.str)
    /\ cres.ok => cres.signature = hmac(ToBytes(PayloadTextOf(cres.str)), MacKeyOfCipher)

\* C9: a generateInitializationVector call on the key and stop length of the
\* result the caller kept returns that same result, whatever encrypt, decrypt
\* and other generateInitializationVector calls happened in between; so does
\* the IV an encrypt or decrypt derives; and a key freshly built from the same
\* bytes under the same algorithm derives the same IV
C9_IVDeterminism ==
  /\ (watch.set /\ kres.op = "iv" /\ kres.ref = watch.ref /\ kres.stop = watch.stop)
       => kres.out = watch.out
  /\ (watch.set /\ cres.op \in {"encrypt", "decrypt"} /\ cres.usedIV
        /\ cipher.key = watch.ref /\ cres.ivStop = watch.stop)
       => cres.iv = watch.out
  /\ kres.op = "iv" =>
       LET fresh == NewSymmetricKey([given |-> TRUE, bytes |-> keys[kres.ref].original],
                                    OptValue(Str(keys[kres.ref].algorithm)))
       IN  fresh.ok /\ generateInitializationVector(fresh.v, kres.stop) = kres.out

C9_Witness ==
  /\ watch.set /\ watch.again
  /\ kres.op = "iv" /\ kres.stop = watch.stop /\ kres.out = watch.out
  /\ cres.op = "decrypt" /\ cres.ok

----------------------------------------------------------------------------
(* Properties of BlockCipher *)

\* The data of the blocks, in the order given
BlockData(blocks) == [i \in 1..Len(blocks) |-> blocks[i].data]

\* C2: a decrypt of a block set whose data differs from what encrypt produced
\* (one bit of one block changed) fails, with the checksum-mismatch or the
\* tampered-data error, and returns no payload
C2_TamperDetected ==
  (block.op = "decrypt" /\ BlockData(block.blocks) # BlockData(block.produced)) =>
    /\ ~block.ok
    /\ block.err \in {ChecksumMismatchError, TamperedMessage}

C2_Witness ==
  /\ block.op = "decrypt" /\ block.flipped
  /\ BlockData(block.blocks) # BlockData(block.produced)
  /\ Len(block.blocks) > 1
  /\ ~block.ok /\ block.err = ChecksumMismatchError

----------------------------------------------------------------------------
(* Properties of construction *)

\* C11: new SymmetricKey(bytes, {algorithm: {name, length}}) with a name that
\* is none of the six known identifiers and a length > 0 succeeds, with
\* length = the given length; a construction with a key fails only when the
\* name is unrecognized and no length is given
C11_CustomAlgorithm ==
  (kres.op = "new" /\ kres.keyGiven /\ kres.option.kind = "object"
     /\ kres.option.name.t = "string"
     /\ kres.option.name.s \notin SymmetricAlgorithm
     /\ kres.option.length > 0) =>
    /\ kres.ok
    /\ keys[kres.ref].length = kres.option.length

\* The cipher family an algorithm belongs to
FamilyOf(algorithm) ==
  IF IncludesAes(algorithm) THEN "AES"
  ELSE IF algorithm = "chacha20-poly1305" THEN "ChaCha20"
  ELSE "none"

\* C12: the family of a cipher instance is the family of its key's algorithm;
\* a constructor call on a key of the other family fails
C12_FamilyMatches ==
  /\ cipher # NoCipher => cipher.family = FamilyOf(keys[cipher.key].algorithm)
  /\ (cres.op = "newAES" /\ cres.argIsKey /\ cres.ok) => cipher # NoCipher
  /\ (cres.op = "newChaCha20" /\ cres.argIsKey /\ cres.ok) => cipher # NoCipher

\* C13: a construction of an AES cipher or of a BlockCipher under the
\* algorithm "des-ede3" fails, with the unsupported-algorithm error, whatever
\* the key argument is
C13_UnsupportedBeforeKey ==
  /\ (cres.op = "newAES" /\ cres.algorithm = "des-ede3") =>
       (~cres.ok /\ cres.err \in {UnsupportedAlgorithm, "Invalid algorithm for AES"})
  /\ (block.op = "new" /\ block.algorithm = "des-ede3") =>
       (~block.ok /\ block.err = UnsupportedAlgorithm)

\* C14: a construction of a BlockCipher on a cipher argument succeeds exactly
\* when the argument is an object with a function encrypt and a function
\* decrypt; otherwise it fails with a TypeError and no BlockCipher exists
C14_CollaboratorChecked ==
  block.op = "newOfCipher" =>
    /\ block.ok <=> (block.collab.t = "object" /\ ~block.collab.isNull
                       /\ block.collab.hasEncrypt /\ block.collab.hasDecrypt)
    /\ block.ok <=> block.made
    /\ ~block.ok => block.err \in {UnsupportedCipher, InvalidCipher, NullPropertyError}

C14_Witness ==
  /\ block.op = "newOfCipher" /\ ~block.ok /\ ~block.made
  /\ block.collab.t = "object" /\ block.collab.hasDecrypt /\ ~block.collab.hasEncrypt
  /\ block.err = InvalidCipher

\* C15: the legacy (no-IV) mode flag of a cipher instance never changes after
\* construction, so all its encrypt and decrypt calls run in one mode
C15_ModeFixed ==
  [][cipher # NoCipher => cipher'.unsafeMode = cipher.unsafeMode]_vars

\* C16: concurrent encrypt / decrypt calls on one instance are independent:
\* under every interleaving, every settled call has exactly the outcome the
\* same call has when run alone on the instance, and no step of a call, failed
\* or not, changes the instance's key material
C16_CallsIndependent ==
  /\ [](\A i \in 1..Len(calls) :
          calls[i].pc = "settled" => calls[i].out = calls[i].alone)
  /\ [][calls' # calls => keys' = keys /\ cipher'.key = cipher.key]_vars

\* Two calls that were in flight at the same time have both settled, one
\* of them failed and the other succeeded
C16_Witness ==
  /\ Len(calls) = 2
  /\ calls[1].pc = "settled" /\ calls[2].pc = "settled"
  /\ calls[1].overlapped /\ calls[2].overlapped
  /\ ~calls[1].out.ok /\ calls[1].op = "decrypt"
  /\ calls[2].out.ok /\ calls[2].op = "encrypt"

\* A payload that is a class instance, or one JSON.stringify throws on
NotSerializable(v) == (IsObjectType(v) /\ ~isPlainObject(v)) \/ StringifyThrows(v)

SerializationErrors == {"Invalid data type", "Non serializable data"}

\* C17: an encrypt call on a class instance, or on a payload whose JSON
\* serialisation throws, fails with the serialisation error; that call reaches
\* neither hmac nor the cipher primitive, and BlockCipher.encrypt produces no
\* blocks
C17_SerializationFailsFirst ==
  /\ (cres.op = "encrypt" /\ NotSerializable(cres.input)) =>
       /\ ~cres.ok /\ cres.err \in SerializationErrors
       /\ ~cres.hmacCalled /\ ~cres.primCalled /\ cres.ct = <<>>
  /\ (block.op = "encrypt" /\ NotSerializable(block.sent)) =>
       /\ ~block.ok /\ block.err \in SerializationErrors
       /\ ~block.hmacCalled /\ ~block.primCalled
       /\ block.blocks = <<>> /\ block.produced = <<>>

\* The cipher was handed a class instance and the BlockCipher a BigInt, which
\* passes the BlockCipher's own check and fails in the cipher
C17_Witness ==
  /\ cres.op = "encrypt" /\ cres.input = JInstance /\ ~cres.ok
  /\ block.op = "encrypt" /\ block.sent = JBigInt /\ ~block.ok

\* The block mode a primitive runs in, by the name it is created with
PrimitiveMode(prim) ==
  IF prim \in {"aes-128-cbc", "aes-256-cbc", "AES-CBC"} THEN "cbc"
  ELSE IF prim \in {"aes-128-gcm", "aes-256-gcm"} THEN "gcm"
  ELSE "other"

\* The block mode an algorithm identifier names
NamedMode(algorithm) ==
  IF algorithm \in {"aes-128-cbc", "aes-256-cbc"} THEN "cbc"
  ELSE IF algorithm \in {"aes-128-gcm", "aes-256-gcm"} THEN "gcm"
  ELSE "other"

\* C18: for each of aes-128-cbc, aes-256-cbc, aes-128-gcm and aes-256-gcm, in
\* Node and in the browser, every encrypt and decrypt call in normal mode runs
\* the primitive in the mode the identifier names, with the IV derived from
\* the key
C18_NamedModeUsed ==
  (/\ cipher # NoCipher /\ cipher.family = "AES"
   /\ cres.op \in {"encrypt", "decrypt"} /\ ~cres.unsafe
   /\ cres.prim # "none"
   /\ keys[cipher.key].algorithm \in AesVariants) =>
     /\ PrimitiveMode(cres.prim) = NamedMode(keys[cipher.key].algorithm)
     /\ cres.iv = generateInitializationVector(keys[cipher.key], 0)

----------------------------------------------------------------------------
(* Properties of the chunks *)

\* The chunks BlockCipher.#DoDecryption hands to Slicer.join
ChunksOf(blocks) ==
  [i \in 1..Len(blocks) |->
     [index |-> blocks[i].index, hash |-> blocks[i].hash, value |-> blocks[i].data]]

\* What a BlockCipher.decrypt call gives its caller
DecryptOutcome(r) == [ok |-> r.ok, err |-> r.err, payload |-> r.payload]

\* C19: whatever the order of the blocks the caller hands over, join gives the
\* content it gives for the blocks in index-ascending order, and so does
\* BlockCipher.decrypt with its payload or error
C19_OrderIndependent ==
  /\ (block.made /\ Len(block.blocks) > 0) =>
       SlicerJoin(ChunksOf(block.blocks), block.checksum)
         = SlicerJoin(ChunksOf(block.produced), block.checksum)
  /\ block.op = "decrypt" =>
       DecryptOutcome(block)
         = DecryptOutcome(BlockDoDecryption(keys, cipher, env,
                            [blocks |-> block.produced, checksum |-> block.checksum]))

\* A decrypt of three blocks handed over with the last one first succeeded
C19_Witness ==
  /\ block.op = "decrypt" /\ block.ok
  /\ Len(block.blocks) = 3
  /\ block.blocks[1].index = 2
  /\ block.payload = block.sent

\* The chunk size in force: the configured blockSize, 512 when none is
SizeInForce == IF block.blockSize = 0 THEN 512 ELSE block.blockSize

\* C20: for chunk size c (512 when no blockSize is configured) and content of
\* length L > 0, encrypt's slice gives ceil(L/c) chunks with indices 0..n-1 in
\* order, all of length c but the last, which has length L mod c (c when c
\* divides L), and the chunks concatenated in index order are the content
C20_ChunkSizing ==
  (block.op = "encrypt" /\ block.ok /\ Len(block.content) > 0) =>
    LET c == SizeInForce
        L == Len(block.content)
        n == Len(block.produced)
    IN  /\ n = (L + c - 1) \div c
        /\ \A i \in 1..n : block.produced[i].index = i - 1
        /\ \A i \in 1..(n - 1) : Len(block.produced[i].data) = c
        /\ Len(block.produced[n].data) = (IF L % c = 0 THEN c ELSE L % c)
        /\ ConcatChunks(ChunksOf(block.produced), 0) = block.content

\* A content longer than the default size was cut in two with no blockSize
\* configured
C20_Witness ==
  /\ block.op = "encrypt" /\ block.ok /\ block.blockSize = 0
  /\ Len(block.content) > 512
  /\ Len(block.produced) = 2
  /\ Len(block.produced[2].data) = Len(block.content) - 512

\* A content whose length is a multiple of the configured size was cut into
\* full chunks
C20_WitnessExact ==
  /\ block.op = "encrypt" /\ block.ok /\ block.blockSize = 24
  /\ Len(block.content) % 24 = 0
  /\ Len(block.produced) > 1

\* The indices of the blocks are each of 0..n-1 exactly once
IndicesExact(blocks) ==
  /\ {blocks[i].index : i \in 1..Len(blocks)} = 0..(Len(blocks) - 1)
  /\ \A i, j \in 1..Len(blocks) : blocks[i].index = blocks[j].index => i = j

\* C21: a decrypt of a block set whose indices are not exactly 0..n-1 (one
\* missing, one twice, one out of range) fails with the malformed-chunk-set
\* error, and the cipher's decrypt is not invoked by that call
C21_MalformedRejected ==
  (block.op = "decrypt" /\ ~IndicesExact(block.blocks)) =>
    /\ ~block.ok
    /\ block.err = MalformedChunkSetError
    /\ ~block.cipherInvoked

\* A set of two blocks left of three, with indices 0 and 2, was rejected
C21_Witness ==
  /\ block.op = "decrypt" /\ ~block.ok /\ block.err = MalformedChunkSetError
  /\ Len(block.blocks) = 2
  /\ block.blocks[1].index = 0 /\ block.blocks[2].index = 2
  /\ ~block.cipherInvoked

\* C22: every BlockResult encrypt returns is immutable, has its blocks in
\* index order, carries the checksum of the whole base64 text, and carries a
\* merkleRoot list
C22_BlockResultShape ==
  (block.op = "encrypt" /\ block.ok) =>
    /\ block.frozen
    /\ \A i \in 1..Len(block.produced) : block.produced[i].index = i - 1
    /\ block.checksum = SlicerDigest(block.content)
    /\ "merkleRoot" \in block.fields

----------------------------------------------------------------------------
(* Properties of MultidimensionalVector *)

\* C23: once freeze() has succeeded the vector stays frozen and no call
\* (normalize, safeNormalize, add, subtract, scale, cross) changes what
\* toArray() returns; a second freeze() throws
C23_FrozenUnchanged ==
  [][vector.isFrozen =>
       /\ vector'.isFrozen
       /\ vector'.values = vector.values
       /\ (vector'.op = "freeze" => ~vector'.ok)]_vars

----------------------------------------------------------------------------
(* Properties of binaryIndexOf and base32Decode *)

\* The needle occurs in the haystack at index i (0-based)
OccursAt(haystack, needle, i) ==
  /\ i + Len(needle) <= Len(haystack)
  /\ \A k \in 1..Len(needle) : haystack[i + k] = needle[k]

\* C24: indexOf(sub, offset) returns the smallest index i >= offset at which
\* the needle occurs in the haystack, for needles of every length, 0 and 1
\* included, and -1 when it occurs nowhere at or after offset
C24_IndexOfLikeString ==
  found.op = "indexOf" =>
    LET hits == {i \in found.offset..Len(found.hay) :
                   OccursAt(found.hay, found.needle, i)}
    IN  IF hits = {} THEN found.index = -1
        ELSE /\ found.index \in hits
             /\ \A i \in hits : found.index <= i

InAlphabet(c) ==
  \/ (c >= ChUpperA /\ c < ChUpperA + 26)
  \/ (c >= ChZero + 2 /\ c <= ChZero + 7)

\* C25: base32Decode throws 'Invalid base32 character' only for a text with a
\* character outside A-Z, 2-7; a text of alphabet characters only, 'A'
\* included, is decoded without error
C25_AlphabetDecodes ==
  found.op = "base32Decode" =>
    /\ (\A i \in 1..Len(found.hay) : InAlphabet(found.hay[i])) => found.ok
    /\ (~found.ok /\ found.err = "Invalid base32 character") =>
         \E i \in 1..Len(found.hay) : ~InAlphabet(found.hay[i])

\* The raw keys that agree with the key's raw bytes on the first length
\* bytes and differ from them at positions >= length only: one MAC-key byte
\* changed (the first, the last), and the MAC-key bytes left out altogether
MacKeyVariants(k) ==
  IF Len(k.original) <= k.length THEN {}
  ELSE {[k.original EXCEPT ![p] = (@ + 1) % 256] : p \in {k.length + 1, Len(k.original)}}
       \cup {Slice(k.original, 0, k.length)}

\* The outcome of the recorded encrypt or decrypt call, made again on a
\* cipher in the same mode whose key is k2
Replayed(k2) ==
  LET c2 == [cipher EXCEPT !.key = 1, !.unsafeMode = cres.unsafe]
  IN  IF cres.op = "encrypt"
        THEN LET r == IF cipher.family = "AES"
                        THEN AesDoEncryption(<<k2>>, c2, env, cres.input, cres.salt)
                        ELSE ChaChaDoEncryption(<<k2>>, c2, cres.input)
             IN  <<r.ok, r.err, r.ct, r.iv>>
        ELSE LET r == IF cipher.family = "AES"
                        THEN AesDoDecryption(<<k2>>, c2, env, cres.data)
                        ELSE ChaChaDoDecryption(<<k2>>, c2, cres.data)
             IN  <<r.ok, r.err, r.payload, r.iv>>

Recorded ==
  IF cres.op = "encrypt" THEN <<cres.ok, cres.err, cres.ct, cres.iv>>
  ELSE <<cres.ok, cres.err, cres.payload, cres.iv>>

\* C26: a raw key that differs from the cipher's raw key at positions >=
\* length only gives the same encryption key, the same derived IV (plain and
\* at stop length 12), the same 8-byte HMAC key, and the same outcome of
\* every encrypt and decrypt call: the MAC-key bytes influence nothing
C26_MacKeyNoninterference ==
  (cipher # NoCipher /\ cres.op \in {"encrypt", "decrypt"}) =>
    LET k == keys[cipher.key]
    IN  \A raw \in MacKeyVariants(k) :
          LET n == NewSymmetricKey([given |-> TRUE, bytes |-> raw],
                                   OptValue(Str(k.algorithm)))
          IN  /\ n.ok
              /\ n.v.key = k.key
              /\ Slice(n.v.key, 0, 8) = Slice(k.key, 0, 8)
              /\ generateInitializationVector(n.v, 0) = generateInitializationVector(k, 0)
              /\ generateInitializationVector(n.v, 12) = generateInitializationVector(k, 12)
              /\ Replayed(n.v) = Recorded

C26_Witness ==
  /\ cipher # NoCipher
  /\ cres.op = "decrypt" /\ cres.ok /\ cres.roundTrip /\ cres.usedIV
  /\ keys[cipher.key].hasHmacKey
  /\ \E raw \in MacKeyVariants(keys[cipher.key]) : raw # keys[cipher.key].original

\* The path an AES call took: the legacy crypto-js pair, or the IV primitive
TookUnsafePath(call) == call.out.prim = "crypto-js"

\* C27: a settled AES call that reached the cipher took the path of the mode
\* flag it read when it was invoked, whatever noUseIVCipher() did while it was
\* pending, and the flag of an instance never goes from unsafe back to normal
C27_ModeAtInvocation ==
  /\ [](cipher.family = "AES" =>
          \A i \in 1..Len(calls) :
            (calls[i].pc = "settled" /\ calls[i].out.prim # "none") =>
              (TookUnsafePath(calls[i]) <=> calls[i].unsafe))
  /\ [][cipher.unsafeMode => cipher'.unsafeMode]_vars

\* An encrypt call invoked in normal mode settled on the IV path although
\* noUseIVCipher() ran while it was pending
C27_Witness ==
  /\ cipher.family = "AES" /\ cipher.unsafeMode
  /\ \E i \in 1..Len(calls) :
       /\ calls[i].op = "encrypt" /\ calls[i].pc = "settled" /\ calls[i].out.ok
       /\ ~calls[i].unsafe /\ calls[i].switched
       /\ ~TookUnsafePath(calls[i])

\* C28: in normal mode the IV handed to the primitive is 16 bytes long for
\* aes-128-cbc and aes-256-cbc and 12 bytes long for chacha20-poly1305, for
\* every key of at least the required length
C28_IVLengthFits ==
  (/\ cipher # NoCipher
   /\ cres.op \in {"encrypt", "decrypt"} /\ cres.usedIV /\ cres.prim # "none"
   /\ Len(keys[cipher.key].original) >= keys[cipher.key].length) =>
     /\ keys[cipher.key].algorithm \in {"aes-128-cbc", "aes-256-cbc"} =>
          Len(cres.iv) = 16
     /\ keys[cipher.key].algorithm = "chacha20-poly1305" => Len(cres.iv) = 12

\* C29: a Deferred settles at most once: once resolve, reject or cancel has
\* been called, a later call leaves isResolved, isRejected and value as they
\* are; the reported outcome agrees with the state of the promise; and
\* isResolved and isRejected are never both true
C29_SettlesOnce ==
  /\ [][(deferred.made /\ deferred.calls > 0) =>
          /\ isResolved(deferred') = isResolved(deferred)
          /\ isRejected(deferred') = isRejected(deferred)
          /\ DeferredValue(deferred') = DeferredValue(deferred)]_vars
  /\ [](deferred.made =>
          /\ isResolved(deferred) <=> deferred.promise.state = "fulfilled"
          /\ isRejected(deferred) <=> deferred.promise.state = "rejected"
          /\ isResolved(deferred) =>
               DeferredValue(deferred).v = deferred.promise.value
          /\ ~(isResolved(deferred) /\ isRejected(deferred)))

\* C30: under every interleaving of insert / update / lookup operations, on
\* one instance or on several, no operation's finally-block closes a Database
\* while another operation that got the same Database from #connect has yet to
\* run its query on it
C30_NoCloseInUse ==
  [][\A i \in 1..Len(pg.ops) :
       (pg.ops[i].pc = "queried" /\ Len(pg'.ops) = Len(pg.ops)
          /\ pg'.ops[i].pc = "done") =>
         \A j \in (1..Len(pg.ops)) \ {i} :
           ~(pg.ops[j].pc = "holding" /\ pg.ops[j].conn = pg.ops[i].conn)]_vars

=============================================================================
